---- MODULE Spec2Model ----
(***************************************************************************)
(* A model of the scoring engine of repo_analyzer (scoring_system.py):     *)
(* the normalizer, the dimension scorer, the aggregator and the metric     *)
(* value resolver of class ScoringSystem.                                  *)
(*                                                                         *)
(* Python numbers are modelled as exact rationals [n, d] in lowest terms;  *)
(* JSON values are tagged records (none, bool, num, str, list, dict); a    *)
(* Python dict read with .get is a TLA+ function whose DOMAIN is its keys. *)
(***************************************************************************)
EXTENDS Integers, Sequences, FiniteSets, TLC

VARIABLES
    pc,        \* the operation about to run, or the one that has returned
    inp,       \* the arguments of that operation
    out,       \* its result and the locals it leaves behind
    evidence,  \* the files under the evidence root
    system     \* the fields of the ScoringSystem object (self)

vars == <<pc, inp, out, evidence, system>>

----------------------------------------------------------------------------
(* Bounds of the model.                                                    *)

\* longest list of thresholds in a normalization spec
MaxLadder == 3
\* raw numeric metric values range over -1 .. MaxValue
MaxValue == 6

----------------------------------------------------------------------------
(* Numbers: Python floats as exact rationals.                              *)

Abs(a) == IF a < 0 THEN -a ELSE a

RECURSIVE GCD(_, _)
GCD(a, b) == IF b = 0 THEN a ELSE GCD(b, a % b)

Rat(n, d) ==
    LET s == IF d < 0 THEN -1 ELSE 1
        g == GCD(Abs(n), Abs(d))
    IN  [n |-> (s * n) \div g, d |-> (s * d) \div g]

Num(i) == [n |-> i, d |-> 1]

RAdd(a, b) == Rat(a.n * b.d + b.n * a.d, a.d * b.d)
RSub(a, b) == Rat(a.n * b.d - b.n * a.d, a.d * b.d)
RMul(a, b) == Rat(a.n * b.n, a.d * b.d)
RDiv(a, b) == Rat(a.n * b.d, a.d * b.n)
RLe(a, b) == a.n * b.d <= b.n * a.d
RLt(a, b) == a.n * b.d < b.n * a.d
RMin(a, b) == IF RLe(a, b) THEN a ELSE b
RMax(a, b) == IF RLe(b, a) THEN a ELSE b

----------------------------------------------------------------------------
(* Python values.                                                          *)

None == [t |-> "none"]
VBool(b) == [t |-> "bool", b |-> b]
VNum(q) == [t |-> "num", q |-> q]
VInt(i) == VNum(Num(i))
VStr(s) == [t |-> "str", s |-> s]
VList(items) == [t |-> "list", items |-> items]
VDict(m) == [t |-> "dict", m |-> m]

\* dict.get(key, default) on a Python dict held as a TLA+ function
Get(d, key, default) == IF key \in DOMAIN d THEN d[key] ELSE default

\* bool(value): the truth value Python's `if value:` tests
Truthy(value) ==
    CASE value.t = "none" -> FALSE
      [] value.t = "bool" -> value.b
      [] value.t = "num"  -> value.q.n # 0
      [] value.t = "str"  -> value.s # ""
      [] value.t = "list" -> Len(value.items) > 0
      [] value.t = "dict" -> DOMAIN value.m # {}

\* the integer a numeral string denotes, -1 when the string is no numeral
NumeralOf(s) ==
    IF \E i \in 0..(MaxValue + 1) : ToString(i) = s
    THEN CHOOSE i \in 0..(MaxValue + 1) : ToString(i) = s
    ELSE -1

\* float(value) after the bool special case: ok = FALSE stands for the
\* ValueError / TypeError that the caller catches
ToFloat(value) ==
    CASE value.t = "bool" -> [ok |-> TRUE, q |-> IF value.b THEN Num(1) ELSE Num(0)]
      [] value.t = "num"  -> [ok |-> TRUE, q |-> value.q]
      [] value.t = "str"  -> IF NumeralOf(value.s) >= 0
                             THEN [ok |-> TRUE, q |-> Num(NumeralOf(value.s))]
                             ELSE [ok |-> FALSE, q |-> Num(0)]
      [] OTHER            -> [ok |-> FALSE, q |-> Num(0)]

\* str(value), the key _normalize_mapping looks up
PyStr(value) ==
    CASE value.t = "none" -> "None"
      [] value.t = "bool" -> IF value.b THEN "True" ELSE "False"
      [] value.t = "num"  -> IF value.q.d = 1 THEN ToString(value.q.n)
                             ELSE ToString(value.q.n) \o "/" \o ToString(value.q.d)
      [] value.t = "str"  -> value.s
      [] value.t = "list" -> IF Len(value.items) = 0 THEN "[]" ELSE "[...]"
      [] value.t = "dict" -> IF DOMAIN value.m = {} THEN "{}" ELSE "{...}"

----------------------------------------------------------------------------
(* The normalizer.                                                         *)

\* [t for t in thresholds if key in t]
WithKey(thresholds, key) == SelectSeq(thresholds, LAMBDA t : key \in DOMAIN t)

\* sorted(ts, key=lambda x: x.get(key, 0)): stable, ascending
RECURSIVE SortedAsc(_, _)
SortedAsc(ts, key) ==
    IF Len(ts) = 0 THEN <<>>
    ELSE LET rest == SortedAsc(SubSeq(ts, 1, Len(ts) - 1), key)
             x    == ts[Len(ts)]
             k    == Cardinality({i \in 1..Len(rest) :
                                     Get(rest[i], key, 0) <= Get(x, key, 0)})
         IN  SubSeq(rest, 1, k) \o <<x>> \o SubSeq(rest, k + 1, Len(rest))

\* sorted(ts, key=..., reverse=True): stable, descending
RECURSIVE SortedDesc(_, _)
SortedDesc(ts, key) ==
    IF Len(ts) = 0 THEN <<>>
    ELSE LET rest == SortedDesc(SubSeq(ts, 1, Len(ts) - 1), key)
             x    == ts[Len(ts)]
             k    == Cardinality({i \in 1..Len(rest) :
                                     Get(rest[i], key, 0) >= Get(x, key, 0)})
         IN  SubSeq(rest, 1, k) \o <<x>> \o SubSeq(rest, k + 1, Len(rest))

\* a faulty LteLadder that interpolates from the wrong end: the score falls
\* from the threshold's own to the previous one as the value rises
LteLadderFromFarEnd(v, lte_thresholds, interpolate) ==
    LET sorted_thresholds == SortedAsc(lte_thresholds, "lte")
        Hit(i) == RLe(v, Num(Get(sorted_thresholds[i], "lte", 0)))
    IN  IF \E i \in 1..Len(sorted_thresholds) : Hit(i)
        THEN LET i == CHOOSE j \in 1..Len(sorted_thresholds) :
                          Hit(j) /\ \A k \in 1..(j - 1) : ~Hit(k)
                 threshold_value == Get(sorted_thresholds[i], "lte", 0)
                 threshold_score == Get(sorted_thresholds[i], "score", 0)
             IN  IF interpolate /\ i > 1
                 THEN LET prev_value == Get(sorted_thresholds[i - 1], "lte", 0)
                          prev_score == Get(sorted_thresholds[i - 1], "score", 0)
                      IN  IF threshold_value # prev_value
                          THEN LET ratio == RDiv(RSub(v, Num(prev_value)),
                                                 Num(threshold_value - prev_value))
                               IN  RAdd(Num(threshold_score),
                                        RMul(Num(prev_score - threshold_score), ratio))
                          ELSE Num(threshold_score)
                 ELSE Num(threshold_score)
        ELSE Num(Get(sorted_thresholds[Len(sorted_thresholds)], "score", 0))

\* a faulty LteLadder that scores 0 when the value satisfies no threshold
LteLadderOrZero(v, lte_thresholds, interpolate) ==
    LET sorted_thresholds == SortedAsc(lte_thresholds, "lte")
        Hit(i) == RLe(v, Num(Get(sorted_thresholds[i], "lte", 0)))
    IN  IF \E i \in 1..Len(sorted_thresholds) : Hit(i)
        THEN LET i == CHOOSE j \in 1..Len(sorted_thresholds) :
                          Hit(j) /\ \A k \in 1..(j - 1) : ~Hit(k)
                 threshold_value == Get(sorted_thresholds[i], "lte", 0)
                 threshold_score == Get(sorted_thresholds[i], "score", 0)
             IN  IF interpolate /\ i > 1
                 THEN LET prev_value == Get(sorted_thresholds[i - 1], "lte", 0)
                          prev_score == Get(sorted_thresholds[i - 1], "score", 0)
                      IN  IF threshold_value # prev_value
                          THEN LET ratio == RDiv(RSub(v, Num(prev_value)),
                                                 Num(threshold_value - prev_value))
                               IN  RAdd(Num(prev_score),
                                        RMul(Num(threshold_score - prev_score), ratio))
                          ELSE Num(threshold_score)
                 ELSE Num(threshold_score)
        ELSE Num(0)

\* the lower_is_better walk over the lte thresholds
LteLadder(v, lte_thresholds, interpolate) ==
    LET sorted_thresholds == SortedAsc(lte_thresholds, "lte")
        Hit(i) == RLe(v, Num(Get(sorted_thresholds[i], "lte", 0)))
    IN  IF \E i \in 1..Len(sorted_thresholds) : Hit(i)
        THEN LET i == CHOOSE j \in 1..Len(sorted_thresholds) :
                          Hit(j) /\ \A k \in 1..(j - 1) : ~Hit(k)
                 threshold_value == Get(sorted_thresholds[i], "lte", 0)
                 threshold_score == Get(sorted_thresholds[i], "score", 0)
             IN  IF interpolate /\ i > 1
                 THEN LET prev_value == Get(sorted_thresholds[i - 1], "lte", 0)
                          prev_score == Get(sorted_thresholds[i - 1], "score", 0)
                      IN  IF threshold_value # prev_value
                          THEN LET ratio == RDiv(RSub(v, Num(prev_value)),
                                                 Num(threshold_value - prev_value))
                               IN  RAdd(Num(prev_score),
                                        RMul(Num(threshold_score - prev_score), ratio))
                          ELSE Num(threshold_score)
                 ELSE Num(threshold_score)
        ELSE Num(Get(sorted_thresholds[Len(sorted_thresholds)], "score", 0))

\* a faulty GteLadder that walks the thresholds in ascending order of bound
GteLadderAscending(v, gte_thresholds, interpolate) ==
    LET sorted_thresholds == SortedAsc(gte_thresholds, "gte")
        Hit(i) == RLe(Num(Get(sorted_thresholds[i], "gte", 0)), v)
    IN  IF \E i \in 1..Len(sorted_thresholds) : Hit(i)
        THEN LET i == CHOOSE j \in 1..Len(sorted_thresholds) :
                          Hit(j) /\ \A k \in 1..(j - 1) : ~Hit(k)
             IN  Num(Get(sorted_thresholds[i], "score", 0))
        ELSE Num(Get(sorted_thresholds[Len(sorted_thresholds)], "score", 0))

\* the higher_is_better walk over the gte thresholds
GteLadder(v, gte_thresholds, interpolate) ==
    LET sorted_thresholds == SortedDesc(gte_thresholds, "gte")
        Hit(i) == RLe(Num(Get(sorted_thresholds[i], "gte", 0)), v)
    IN  IF \E i \in 1..Len(sorted_thresholds) : Hit(i)
        THEN LET i == CHOOSE j \in 1..Len(sorted_thresholds) :
                          Hit(j) /\ \A k \in 1..(j - 1) : ~Hit(k)
                 threshold_value == Get(sorted_thresholds[i], "gte", 0)
                 threshold_score == Get(sorted_thresholds[i], "score", 0)
             IN  IF interpolate /\ i > 1
                 THEN LET next_value == Get(sorted_thresholds[i - 1], "gte", 0)
                          next_score == Get(sorted_thresholds[i - 1], "score", 0)
                      IN  IF next_value # threshold_value
                          THEN LET ratio == RDiv(RSub(v, Num(threshold_value)),
                                                 Num(next_value - threshold_value))
                               IN  RAdd(Num(threshold_score),
                                        RMul(Num(next_score - threshold_score), ratio))
                          ELSE Num(threshold_score)
                 ELSE Num(threshold_score)
        ELSE Num(Get(sorted_thresholds[Len(sorted_thresholds)], "score", 0))

\* one step of the mixed-threshold loop: the best match after `threshold`
\* (best_match is <<>> while the code's best_match is None)
BestMatchStep(best_match, threshold, v) ==
    IF "lte" \in DOMAIN threshold /\ RLe(v, Num(Get(threshold, "lte", 0)))
    THEN IF best_match = <<>> \/ Get(threshold, "lte", 0) < Get(best_match[1], "lte", 0)
         THEN <<threshold>> ELSE best_match
    ELSE IF "gte" \in DOMAIN threshold /\ RLe(Num(Get(threshold, "gte", 0)), v)
    THEN IF best_match = <<>> \/ Get(threshold, "gte", 0) > Get(best_match[1], "gte", 0)
         THEN <<threshold>> ELSE best_match
    ELSE best_match

RECURSIVE BestMatch(_, _, _)
BestMatch(thresholds, n, v) ==
    IF n = 0 THEN <<>>
    ELSE BestMatchStep(BestMatch(thresholds, n - 1, v), thresholds[n], v)

MixedThresholds(v, thresholds) ==
    LET best_match == BestMatch(thresholds, Len(thresholds), v)
    IN  IF best_match # <<>> THEN Num(Get(best_match[1], "score", 0)) ELSE Num(0)

_normalize_thresholds(value, normalization) ==
    LET thresholds  == Get(normalization, "thresholds", <<>>)
        direction   == Get(normalization, "direction", "higher_is_better")
        interpolate == Get(normalization, "interpolate_between_points", FALSE)
        f           == ToFloat(value)
        lte_thresholds == WithKey(thresholds, "lte")
        gte_thresholds == WithKey(thresholds, "gte")
    IN  IF Len(thresholds) = 0 THEN Num(0)
        ELSE IF ~f.ok THEN Num(0)
        ELSE IF Len(lte_thresholds) > 0 /\ direction = "lower_is_better"
        THEN LteLadder(f.q, lte_thresholds, interpolate)
        ELSE IF Len(gte_thresholds) > 0 /\ direction = "higher_is_better"
        THEN GteLadder(f.q, gte_thresholds, interpolate)
        ELSE MixedThresholds(f.q, thresholds)

\* a faulty _normalize_boolean whose defaults are swapped
BooleanSwappedDefaults(value, normalization) ==
    IF Truthy(value)
    THEN Num(Get(normalization, "true_score", 0))
    ELSE Num(Get(normalization, "false_score", 100))

_normalize_boolean(value, normalization) ==
    IF Truthy(value)
    THEN Num(Get(normalization, "true_score", 100))
    ELSE Num(Get(normalization, "false_score", 0))

_normalize_mapping(value, normalization) ==
    LET mapping == Get(normalization, "mapping", <<>>)
    IN  Num(Get(mapping, PyStr(value), 0))

_normalize_value(value, normalization) ==
    LET norm_type == Get(normalization, "type", "")
    IN  IF value = None THEN Num(0)
        ELSE IF norm_type = "thresholds" THEN _normalize_thresholds(value, normalization)
        ELSE IF norm_type = "boolean" THEN _normalize_boolean(value, normalization)
        ELSE IF norm_type = "mapping" THEN _normalize_mapping(value, normalization)
        ELSE Num(0)

----------------------------------------------------------------------------
(* The evidence root: files read by the resolver and the estimator.        *)

\* a raised exception, as a result
Raised == [t |-> "raise"]

Missing == [t |-> "missing"]
\* a file that exists and does not parse as JSON
Invalid == [t |-> "invalid"]
Json(doc) == [t |-> "json", doc |-> doc]

\* the file at a path relative to the evidence root
FileAt(root, path) == Get(root, path, Missing)
Exists(root, path) == FileAt(root, path) # Missing

\* json.load of an existing file
Load(root, path) == IF FileAt(root, path).t = "json" THEN FileAt(root, path).doc ELSE Raised

\* an ISO-8601 timestamp string: wall clock in hours relative to the
\* evaluation time's UTC wall clock, tz its UTC offset in hours or Naive
Naive == [naive |-> TRUE]
Offset(hours) == [naive |-> FALSE, hours |-> hours]
IsoDate(wall, tz) == [t |-> "str", s |-> "iso", wall |-> wall, tz |-> tz]

\* value.get(part) of a Python dict value
DictGet(value, part) == Get(value.m, part, None)

\* the walk of a dotted field in _get_metric_value: a non-dict or a missing
\* segment gives None
RECURSIVE WalkStrict(_, _)
WalkStrict(value, parts) ==
    IF Len(parts) = 0 THEN value
    ELSE IF value.t # "dict" THEN None
    ELSE IF DictGet(value, Head(parts)) = None THEN None
    ELSE WalkStrict(DictGet(value, Head(parts)), Tail(parts))

\* the walk of a dotted field in _get_metric_value_fallback: a non-dict or a
\* missing segment breaks out of the loop with the value reached so far
RECURSIVE WalkBreak(_, _)
WalkBreak(value, parts) ==
    IF Len(parts) = 0 THEN value
    ELSE IF value.t # "dict" THEN value
    ELSE IF DictGet(value, Head(parts)) = None THEN None
    ELSE WalkBreak(DictGet(value, Head(parts)), Tail(parts))

\* `"recent_commits" not in commits_data` for a truthy commits_data:
\* a bool, or Raised for a value that is no container
LacksRecentCommits(commits_data) ==
    CASE commits_data.t = "dict" -> VBool("recent_commits" \notin DOMAIN commits_data.m)
      [] commits_data.t = "list" ->
            VBool(\A i \in DOMAIN commits_data.items :
                     commits_data.items[i] # VStr("recent_commits"))
      [] commits_data.t = "str"  -> VBool(commits_data.s # "recent_commits")
      [] OTHER -> Raised

\* the author email of a commit as the derived statistics read it:
\* commit.get("author", {}).get("email", "unknown"), Raised when the commit or
\* its author is no dict or the email cannot be a dict key
AuthorEmail(commit) ==
    IF commit.t # "dict" THEN Raised
    ELSE LET author == Get(commit.m, "author", VDict(<<>>))
         IN  IF author.t # "dict" THEN Raised
             ELSE LET author_email == Get(author.m, "email", VStr("unknown"))
                  IN  IF author_email.t \in {"list", "dict"} THEN Raised ELSE author_email

\* a faulty _calculate_top1_share that takes the share of the author of the
\* first commit
Top1ShareOfFirstAuthor(commits_data) ==
    IF ~Truthy(commits_data) THEN VInt(0)
    ELSE IF LacksRecentCommits(commits_data) = Raised THEN Raised
    ELSE IF LacksRecentCommits(commits_data) = VBool(TRUE) THEN VInt(0)
    ELSE IF commits_data.t # "dict" THEN Raised
    ELSE LET commits == Get(commits_data.m, "recent_commits", VList(<<>>))
         IN  IF ~Truthy(commits) THEN VInt(0)
             ELSE IF commits.t # "list" THEN Raised
             ELSE IF \E i \in DOMAIN commits.items : AuthorEmail(commits.items[i]) = Raised
             THEN Raised
             ELSE VNum(Rat(100 * Cardinality({i \in DOMAIN commits.items :
                               AuthorEmail(commits.items[i]) = AuthorEmail(commits.items[1])}),
                           Len(commits.items)))

_calculate_top1_share(commits_data) ==
    IF ~Truthy(commits_data) THEN VInt(0)
    ELSE IF LacksRecentCommits(commits_data) = Raised THEN Raised
    ELSE IF LacksRecentCommits(commits_data) = VBool(TRUE) THEN VInt(0)
    ELSE IF commits_data.t # "dict" THEN Raised
    ELSE LET commits == Get(commits_data.m, "recent_commits", VList(<<>>))
         IN  IF ~Truthy(commits) THEN VInt(0)
             ELSE IF commits.t # "list" THEN Raised
             ELSE IF \E i \in DOMAIN commits.items : AuthorEmail(commits.items[i]) = Raised
             THEN Raised
             ELSE LET emails == {AuthorEmail(commits.items[i]) : i \in DOMAIN commits.items}
                      author_counts == [e \in emails |->
                          Cardinality({i \in DOMAIN commits.items :
                                         AuthorEmail(commits.items[i]) = e})]
                      total_commits == Len(commits.items)
                      max_commits == CHOOSE m \in {author_counts[e] : e \in emails} :
                                        \A e \in emails : author_counts[e] <= m
                  IN  VNum(Rat(max_commits * 100, total_commits))

\* the evaluation time, in hours on the model's clock, and the 90 days before it
Now == 0
HoursPerDay == 24
Days90 == 90

\* datetime.fromisoformat(s.replace('Z', '+00:00')), a naive result taken as
\* UTC: the datetime, with its instant in hours, or Raised for anything that
\* does not parse
DateTime(at) == [t |-> "datetime", at |-> at]

ParseIso(date_str) ==
    IF date_str.t = "str" /\ "wall" \in DOMAIN date_str
    THEN IF date_str.tz.naive THEN DateTime(date_str.wall)
         ELSE DateTime(date_str.wall - date_str.tz.hours)
    ELSE Raised

\* whether a commit adds its author to active_authors; every exception of
\* the loop body's try block skips the commit
AddsActiveAuthor(commit) ==
    LET commit_date_str == Get(commit.m, "date", VStr(""))
    IN  /\ Truthy(commit_date_str)
        /\ ParseIso(commit_date_str) # Raised
        /\ ParseIso(commit_date_str).at >= Now - Days90 * HoursPerDay
        /\ AuthorEmail(commit) # Raised

\* a faulty _calculate_active_maintainers whose loop ends at the first commit
\* that adds no author, instead of going on to the next commit
MaintainersUntilFirstSkip(commits_data) ==
    IF ~Truthy(commits_data) THEN VInt(0)
    ELSE IF LacksRecentCommits(commits_data) = Raised THEN Raised
    ELSE IF LacksRecentCommits(commits_data) = VBool(TRUE) THEN VInt(0)
    ELSE IF commits_data.t # "dict" THEN Raised
    ELSE LET commits == Get(commits_data.m, "recent_commits", VList(<<>>))
         IN  IF ~Truthy(commits) THEN VInt(0)
             ELSE IF commits.t # "list" THEN Raised
             ELSE IF \E i \in DOMAIN commits.items : commits.items[i].t # "dict" THEN Raised
             ELSE LET active_authors ==
                          {AuthorEmail(commits.items[i]) :
                             i \in {j \in DOMAIN commits.items :
                                      \A k \in 1..j : AddsActiveAuthor(commits.items[k])}}
                  IN  VInt(Cardinality(active_authors))

\* a faulty _calculate_active_maintainers that counts the commits of the
\* last 90 days, not their distinct authors
MaintainersPerCommit(commits_data) ==
    IF ~Truthy(commits_data) THEN VInt(0)
    ELSE IF LacksRecentCommits(commits_data) = Raised THEN Raised
    ELSE IF LacksRecentCommits(commits_data) = VBool(TRUE) THEN VInt(0)
    ELSE IF commits_data.t # "dict" THEN Raised
    ELSE LET commits == Get(commits_data.m, "recent_commits", VList(<<>>))
         IN  IF ~Truthy(commits) THEN VInt(0)
             ELSE IF commits.t # "list" THEN Raised
             ELSE IF \E i \in DOMAIN commits.items : commits.items[i].t # "dict" THEN Raised
             ELSE VInt(Cardinality({j \in DOMAIN commits.items :
                                      AddsActiveAuthor(commits.items[j])}))

_calculate_active_maintainers(commits_data) ==
    IF ~Truthy(commits_data) THEN VInt(0)
    ELSE IF LacksRecentCommits(commits_data) = Raised THEN Raised
    ELSE IF LacksRecentCommits(commits_data) = VBool(TRUE) THEN VInt(0)
    ELSE IF commits_data.t # "dict" THEN Raised
    ELSE LET commits == Get(commits_data.m, "recent_commits", VList(<<>>))
         IN  IF ~Truthy(commits) THEN VInt(0)
             ELSE IF commits.t # "list" THEN Raised
             ELSE IF \E i \in DOMAIN commits.items : commits.items[i].t # "dict" THEN Raised
             ELSE LET active_authors ==
                          {AuthorEmail(commits.items[i]) :
                             i \in {j \in DOMAIN commits.items : AddsActiveAuthor(commits.items[j])}}
                  IN  VInt(Cardinality(active_authors))

----------------------------------------------------------------------------
(* The metric value resolver.  A source field is the sequence of the       *)
(* segments of its dotted name.                                            *)

\* a faulty field_mapping table without the computed functions
FieldMappingWithoutFunctions(source_path, source_field) ==
    CASE source_path = "security/deps-sca.json" /\ source_field = <<"critical_open">> ->
            [kind |-> "field", field |-> <<"summary", "critical">>]
      [] source_path = "security/deps-sca.json" /\ source_field = <<"high_open">> ->
            [kind |-> "field", field |-> <<"summary", "high">>]
      [] source_path = "security/deps-sca.json" /\ source_field = <<"medium_open">> ->
            [kind |-> "field", field |-> <<"summary", "medium">>]
      [] source_path = "quality/coverage-summary.json"
           /\ source_field = <<"core_modules_coverage_pct">> ->
            [kind |-> "field", field |-> <<"lines">>]
      [] OTHER -> [kind |-> "unmapped"]

\* the field_mapping table of _get_metric_value
FieldMapping(source_path, source_field) ==
    CASE source_path = "security/deps-sca.json" /\ source_field = <<"critical_open">> ->
            [kind |-> "field", field |-> <<"summary", "critical">>]
      [] source_path = "security/deps-sca.json" /\ source_field = <<"high_open">> ->
            [kind |-> "field", field |-> <<"summary", "high">>]
      [] source_path = "security/deps-sca.json" /\ source_field = <<"medium_open">> ->
            [kind |-> "field", field |-> <<"summary", "medium">>]
      [] source_path = "change/commits.json"
           /\ source_field = <<"contributors", "top1_share_pct">> ->
            [kind |-> "top1_share"]
      [] source_path = "change/commits.json"
           /\ source_field = <<"contributors", "active_maintainers_90d">> ->
            [kind |-> "active_maintainers"]
      [] source_path = "quality/coverage-summary.json"
           /\ source_field = <<"core_modules_coverage_pct">> ->
            [kind |-> "field", field |-> <<"lines">>]
      [] OTHER -> [kind |-> "unmapped"]

\* the alternative_paths table of _get_metric_value_fallback
AlternativePaths(source_path) ==
    CASE source_path = "security/deps-sca.json" ->
            <<"security/deps-sca.json", "security/security.json">>
      [] source_path = "quality/sonar.json" -> <<"quality/sonar.json", "quality/quality.json">>
      [] source_path = "change/commits.json" -> <<"change/commits.json", "change/history.json">>
      [] OTHER -> <<>>

\* the body of the try block of the fallback for one alternative file:
\* the value found, None, or Raised
FallbackRead(root, alt_path, source_field) ==
    LET data == Load(root, alt_path)
    IN  IF data = Raised THEN Raised
        ELSE IF Len(source_field) > 1 THEN WalkBreak(data, source_field)
        ELSE IF data.t # "dict" THEN Raised
        ELSE DictGet(data, source_field[1])

RECURSIVE FallbackFrom(_, _, _)
FallbackFrom(root, alt_paths, source_field) ==
    IF Len(alt_paths) = 0 THEN None
    ELSE IF Exists(root, Head(alt_paths))
            /\ FallbackRead(root, Head(alt_paths), source_field) \notin {Raised, None}
    THEN FallbackRead(root, Head(alt_paths), source_field)
    ELSE FallbackFrom(root, Tail(alt_paths), source_field)

_get_metric_value_fallback(root, source_path, source_field) ==
    FallbackFrom(root, AlternativePaths(source_path), source_field)

\* a faulty read of the primary file that ignores the field_mapping table
UnmappedPrimaryRead(root, source_path, source_field) ==
    LET data == Load(root, source_path)
    IN  IF data = Raised THEN Raised
        ELSE IF Len(source_field) > 1 THEN WalkStrict(data, source_field)
        ELSE IF data.t # "dict" THEN Raised
        ELSE DictGet(data, source_field[1])

\* the body of the try block of _get_metric_value: the value, None, or Raised
PrimaryRead(root, source_path, source_field) ==
    LET data   == Load(root, source_path)
        mapped == FieldMapping(source_path, source_field)
        field  == IF mapped.kind = "field" THEN mapped.field ELSE source_field
    IN  IF data = Raised THEN Raised
        ELSE IF mapped.kind = "top1_share" THEN _calculate_top1_share(data)
        ELSE IF mapped.kind = "active_maintainers" THEN _calculate_active_maintainers(data)
        ELSE IF Len(field) > 1 THEN WalkStrict(data, field)
        ELSE IF data.t # "dict" THEN Raised
        ELSE DictGet(data, field[1])

\* a faulty _get_metric_value without the try block around the read
UnguardedMetricValue(root, source) ==
    IF DOMAIN source = {} THEN None
    ELSE LET source_path  == Get(source, "path", "")
             source_field == Get(source, "field", <<>>)
         IN  IF source_path = "" \/ source_field = <<>> THEN None
             ELSE IF ~Exists(root, source_path)
             THEN _get_metric_value_fallback(root, source_path, source_field)
             ELSE PrimaryRead(root, source_path, source_field)

_get_metric_value(root, source) ==
    IF DOMAIN source = {} THEN None
    ELSE LET source_path  == Get(source, "path", "")
             source_field == Get(source, "field", <<>>)
         IN  IF source_path = "" \/ source_field = <<>> THEN None
             ELSE IF ~Exists(root, source_path)
             THEN _get_metric_value_fallback(root, source_path, source_field)
             ELSE IF PrimaryRead(root, source_path, source_field) = Raised THEN None
             ELSE PrimaryRead(root, source_path, source_field)

----------------------------------------------------------------------------
(* The value estimator.  `self` holds the fields of the ScoringSystem      *)
(* object: stack_info, repo_facts, metrics and metrica_config.             *)

Frameworks(self) == Get(self.stack_info, "frameworks", {})
HasModernStack(self) == Frameworks(self) \cap {"NestJS", "Next.js", "FastAPI"} # {}
HasTypescript(self) == Get(self.stack_info, "has_typescript", FALSE)

\* _parse_commit_date: the datetime, or None
_parse_commit_date(date_str) ==
    IF ~Truthy(date_str) THEN None
    ELSE IF ParseIso(date_str) = Raised THEN None
    ELSE ParseIso(date_str)

Days30 == 30

\* the items a `for` loop over a value visits, as a list; Raised when it
\* cannot be iterated (a str or a dict yields its characters or keys, which
\* are strings)
IterItems(value) ==
    CASE value.t = "list" -> value
      [] value.t = "str"  -> IF value.s = "" THEN VList(<<>>) ELSE VList(<<VStr("char")>>)
      [] value.t = "dict" -> IF DOMAIN value.m = {} THEN VList(<<>>) ELSE VList(<<VStr("key")>>)
      [] OTHER -> Raised

\* a try block that returned nothing, or whose exception was swallowed
Pass == [t |-> "pass"]

\* the try block of the deploys_per_month estimate: its return value, or Pass
DeploysFromCommits(root, self) ==
    LET data == Load(root, "change/commits.json")
    IN  IF data = Raised \/ data.t # "dict" THEN Pass
        ELSE LET recent_commits == Get(data.m, "recent_commits", VList(<<>>))
             IN  IF ~Truthy(recent_commits) THEN Pass
                 ELSE IF IterItems(recent_commits) = Raised THEN Pass
                 ELSE LET cs == IterItems(recent_commits).items
                      IN  IF \E i \in DOMAIN cs :
                                 \/ cs[i].t # "dict"
                                 \/ _parse_commit_date(Get(cs[i].m, "date", VStr(""))) = None
                          THEN Pass
                          ELSE LET commits_30d == Cardinality({i \in DOMAIN cs :
                                       _parse_commit_date(Get(cs[i].m, "date", VStr(""))).at
                                           >= Now - Days30 * HoursPerDay})
                               IN  IF commits_30d >= 20 /\ HasModernStack(self) THEN VInt(10)
                                   ELSE IF commits_30d >= 10 THEN VInt(4)
                                   ELSE IF commits_30d >= 5 THEN VInt(1)
                                   ELSE Pass

EstimateDeploys(root, self) ==
    IF Exists(root, "change/commits.json") /\ DeploysFromCommits(root, self) # Pass
    THEN DeploysFromCommits(root, self)
    ELSE IF HasModernStack(self) THEN VInt(4) ELSE VInt(0)

\* commit messages that contain one of the feature keywords once lowercased
FeatureMessages == {"feat: login", "Add tests", "implement cache", "new api"}

IntMin(a, b) == IF a <= b THEN a ELSE b

FeaturesFromCommits(root) ==
    LET data == Load(root, "change/commits.json")
    IN  IF data = Raised \/ data.t # "dict" THEN Pass
        ELSE LET recent_commits == Get(data.m, "recent_commits", VList(<<>>))
             IN  IF ~Truthy(recent_commits) THEN Pass
                 ELSE IF recent_commits.t \notin {"list", "str"} THEN Pass
                 ELSE LET cs == SubSeq(IterItems(recent_commits).items, 1,
                                       IntMin(20, Len(IterItems(recent_commits).items)))
                      IN  IF \E i \in DOMAIN cs :
                                 \/ cs[i].t # "dict"
                                 \/ Get(cs[i].m, "message", VStr("")).t # "str"
                          THEN Pass
                          ELSE VInt(IntMin(12, Cardinality({i \in DOMAIN cs :
                                       Get(cs[i].m, "message", VStr("")).s \in FeatureMessages})))

EstimateFeatures(root) ==
    IF Exists(root, "change/commits.json") /\ FeaturesFromCommits(root) # Pass
    THEN FeaturesFromCommits(root)
    ELSE VInt(2)

\* dependency names that contain one of the async / queue keywords
AsyncDependencyNames == {"bullmq", "redis", "celery", "kafkajs"}
\* repository names that contain scheduler, worker, queue or job
WorkerRepoNames == {"job-runner", "queue-worker"}

AsyncFromDependencies(root) ==
    LET deps == Load(root, "dependencies.json")
    IN  IF deps = Raised \/ deps.t # "dict" THEN FALSE
        ELSE LET ds == IterItems(Get(deps.m, "dependencies", VList(<<>>)))
             IN  IF ds = Raised THEN FALSE
                 ELSE IF \E i \in DOMAIN ds.items :
                            \/ ds.items[i].t # "dict"
                            \/ Get(ds.items[i].m, "name", VStr("")).t # "str"
                 THEN FALSE
                 ELSE \E i \in DOMAIN ds.items :
                          Get(ds.items[i].m, "name", VStr("")).s \in AsyncDependencyNames

EstimateAsync(root, self) ==
    IF Exists(root, "dependencies.json") /\ AsyncFromDependencies(root) THEN VBool(TRUE)
    ELSE IF Get(self.repo_facts, "name", "") \in WorkerRepoNames THEN VBool(TRUE)
    ELSE VBool(FALSE)

\* data.get(outer, {}).get(inner, 0) of a loaded file, Raised on a non-dict
NestedGet(data, outer, inner) ==
    IF data = Raised \/ data.t # "dict" THEN Raised
    ELSE LET o == Get(data.m, outer, VDict(<<>>))
         IN  IF o.t # "dict" THEN Raised ELSE Get(o.m, inner, VInt(0))

EstimateCriticalCves(root) ==
    IF Exists(root, "security/deps-sca.json")
       /\ NestedGet(Load(root, "security/deps-sca.json"), "summary", "critical") # Raised
    THEN NestedGet(Load(root, "security/deps-sca.json"), "summary", "critical")
    ELSE VInt(0)

EstimateSecrets(root) ==
    LET data == Load(root, "security/secrets.json")
    IN  IF Exists(root, "security/secrets.json") /\ data # Raised /\ data.t = "dict"
        THEN Get(data.m, "secrets_found", VInt(0))
        ELSE VInt(0)

\* a faulty coverage estimate that is absent when nothing can be read
EstimateCoverageOrAbsent(root) ==
    LET data == Load(root, "quality/coverage-summary.json")
    IN  IF Exists(root, "quality/coverage-summary.json") /\ data # Raised
           /\ data.t = "dict" /\ "lines" \in DOMAIN data.m
        THEN data.m.lines
        ELSE None

\* `data and "lines" in data` followed by data.get("lines", 0)
EstimateCoverage(root) ==
    LET data == Load(root, "quality/coverage-summary.json")
    IN  IF Exists(root, "quality/coverage-summary.json") /\ data # Raised
           /\ data.t = "dict" /\ "lines" \in DOMAIN data.m
        THEN data.m.lines
        ELSE VInt(0)

EstimateBusFactor(root, metric_key) ==
    LET data == Load(root, "change/commits.json")
        r == IF metric_key = "top1_author_share_pct" THEN _calculate_top1_share(data)
             ELSE _calculate_active_maintainers(data)
    IN  IF Exists(root, "change/commits.json") /\ data # Raised /\ r # Raised
        THEN r ELSE None

AdrDirs == {"../docs/adr", "../adr", "../docs/decisions"}

_estimate_metric_value(root, self, metric_key, dimension_key) ==
    CASE dimension_key = "velocity" ->
            (CASE metric_key = "deploys_per_month" -> EstimateDeploys(root, self)
               [] metric_key = "lead_time_pr_to_prod_hours" ->
                     IF HasModernStack(self) /\ HasTypescript(self) THEN VInt(24)
                     ELSE IF HasModernStack(self) THEN VInt(48) ELSE VInt(96)
               [] metric_key = "features_shipped_per_month" -> EstimateFeatures(root)
               [] OTHER -> None)
      [] dimension_key = "stability" ->
            (CASE metric_key = "change_failure_rate_pct" ->
                     IF "NestJS" \in Frameworks(self) /\ HasTypescript(self) THEN VInt(5)
                     ELSE IF HasTypescript(self) THEN VInt(10) ELSE VInt(15)
               [] metric_key = "mttr_minutes" ->
                     IF "NestJS" \in Frameworks(self) THEN VInt(60) ELSE VInt(120)
               [] metric_key = "prod_incidents_last_30d" -> VInt(0)
               [] OTHER -> None)
      [] dimension_key = "scalability" ->
            (CASE metric_key = "stateless_services_pct" ->
                     IF "NestJS" \in Frameworks(self)
                     THEN IF Get(self.metrics, "files", 0) > 20 THEN VInt(90) ELSE VInt(75)
                     ELSE IF "Express" \in Frameworks(self) THEN VInt(70) ELSE VInt(60)
               [] metric_key = "async_processing_present" -> EstimateAsync(root, self)
               [] metric_key = "autoscaling_configured" -> VBool(FALSE)
               [] OTHER -> None)
      [] dimension_key = "security" ->
            (CASE metric_key = "critical_cves_open" -> EstimateCriticalCves(root)
               [] metric_key = "secrets_detected" -> EstimateSecrets(root)
               [] OTHER -> None)
      [] dimension_key = "maintainability" ->
            (CASE metric_key = "coverage_core_pct" -> EstimateCoverage(root)
               [] OTHER -> None)
      [] dimension_key = "bus_factor" ->
            (CASE metric_key \in {"top1_author_share_pct", "active_maintainers_count"} ->
                     EstimateBusFactor(root, metric_key)
               [] OTHER -> None)
      [] dimension_key = "governance" ->
            (CASE metric_key = "ci_cd_present" -> VBool(Exists(root, "build/build.json"))
               [] metric_key = "onboarding_docs_present" ->
                     VBool(Exists(root, "docs/README.enriched.md"))
               [] metric_key = "runbooks_present" -> VBool(Exists(root, "docs/runbook.md"))
               [] metric_key = "adrs_present" -> VBool(\E d \in AdrDirs : Exists(root, d))
               [] metric_key = "evidence_per_build_published" ->
                     VBool(Exists(root, "build/build.json"))
               [] OTHER -> None)
      [] OTHER -> None

----------------------------------------------------------------------------
(* The dimension scorer.                                                   *)

RECURSIVE SumWeights(_)
SumWeights(metrics) ==
    IF Len(metrics) = 0 THEN 0
    ELSE Get(Head(metrics), "metric_weight", 0) + SumWeights(Tail(metrics))

\* a faulty MetricStep that tests the resolved value for truth: 0 and false
\* are estimated like an absent value
MetricStepEstimatingFalsy(root, self, metric, dimension) ==
    LET resolved == _get_metric_value(root, Get(metric, "source", <<>>))
        absent == resolved = None \/ (resolved # Raised /\ ~Truthy(resolved))
        value == IF absent
                 THEN _estimate_metric_value(root, self, Get(metric, "key", ""),
                                             Get(dimension, "key", ""))
                 ELSE resolved
    IN  [key |-> Get(metric, "key", ""),
         resolved |-> resolved,
         estimated |-> absent,
         value |-> value,
         normalized_score |-> IF value = Raised THEN Raised
                              ELSE _normalize_value(value, Get(metric, "normalization", <<>>))]

\* the locals of one turn of the metric loop: the resolved value, the value
\* after the estimate, and its normalized score; an exception of the
\* resolver or the estimator propagates
MetricStep(root, self, metric, dimension) ==
    LET resolved == _get_metric_value(root, Get(metric, "source", <<>>))
        value == IF resolved = None
                 THEN _estimate_metric_value(root, self, Get(metric, "key", ""),
                                             Get(dimension, "key", ""))
                 ELSE resolved
    IN  [key |-> Get(metric, "key", ""),
         resolved |-> resolved,
         estimated |-> (resolved = None),
         value |-> value,
         normalized_score |-> IF value = Raised THEN Raised
                              ELSE _normalize_value(value, Get(metric, "normalization", <<>>))]

\* the turns of the metric loop of _calculate_dimension_score
DimensionTrace(root, self, dimension) ==
    LET metrics == Get(dimension, "metrics", <<>>)
    IN  IF Len(metrics) = 0 \/ SumWeights(metrics) = 0 THEN <<>>
        ELSE [i \in 1..Len(metrics) |-> MetricStep(root, self, metrics[i], dimension)]

\* dimension_score after the loop over the first n metrics
RECURSIVE WeightedSum(_, _, _)
WeightedSum(metrics, trace, n) ==
    IF n = 0 THEN Num(0)
    ELSE IF trace[n].value # None
    THEN RAdd(WeightedSum(metrics, trace, n - 1),
              RMul(trace[n].normalized_score,
                   Rat(Get(metrics[n], "metric_weight", 0), SumWeights(metrics))))
    ELSE WeightedSum(metrics, trace, n - 1)

\* a faulty _calculate_dimension_score that returns the weighted sum unclamped
UnclampedDimensionScore(root, self, dimension) ==
    LET metrics == Get(dimension, "metrics", <<>>)
        trace == DimensionTrace(root, self, dimension)
        has_valid_values == \E i \in DOMAIN trace : trace[i].value # None
    IN  IF Len(metrics) = 0 THEN Num(0)
        ELSE IF SumWeights(metrics) = 0 THEN Num(0)
        ELSE IF \E i \in DOMAIN trace : trace[i].value = Raised THEN Raised
        ELSE IF ~has_valid_values THEN Num(0)
        ELSE WeightedSum(metrics, trace, Len(metrics))

_calculate_dimension_score(root, self, dimension) ==
    LET metrics == Get(dimension, "metrics", <<>>)
        trace == DimensionTrace(root, self, dimension)
        has_valid_values == \E i \in DOMAIN trace : trace[i].value # None
    IN  IF Len(metrics) = 0 THEN Num(0)
        ELSE IF SumWeights(metrics) = 0 THEN Num(0)
        ELSE IF \E i \in DOMAIN trace : trace[i].value = Raised THEN Raised
        ELSE IF ~has_valid_values THEN Num(0)
        ELSE RMin(Num(100), RMax(Num(0), WeightedSum(metrics, trace, Len(metrics))))

----------------------------------------------------------------------------
(* The aggregator.  A scores dict is the sequence of its (key, score)      *)
(* items in insertion order.                                               *)

Keys(scores) == {scores[i][1] : i \in DOMAIN scores}
ScoreOf(scores, key) == scores[CHOOSE i \in DOMAIN scores : scores[i][1] = key][2]

\* scores[key] = score on an ordered dict (d is the dict before, taken once)
SetItem(scores, key, score) ==
    CHOOSE after \in
        {IF key \in Keys(d)
         THEN [i \in DOMAIN d |-> IF d[i][1] = key THEN <<key, score>> ELSE d[i]]
         ELSE Append(d, <<key, score>>) : d \in {scores}} : TRUE

\* round(q, digits) with 10^digits = scale: the nearest multiple of 1/scale;
\* a value halfway between two multiples goes up or down with the binary
\* representation of the float, which the flag tie_up stands for
Round(q, scale, tie_up) ==
    LET num == q.n * scale
        lo  == num \div q.d
        rem == num - lo * q.d
    IN  IF 2 * rem < q.d THEN Rat(lo, scale)
        ELSE IF 2 * rem > q.d THEN Rat(lo + 1, scale)
        ELSE IF tie_up THEN Rat(lo + 1, scale) ELSE Rat(lo, scale)

QualityDims == <<"maintainability", "security", "scalability">>

RECURSIVE QualitySum(_, _)
QualitySum(dimension_scores, n) ==
    IF n = 0 THEN [quality_score |-> Num(0), count |-> 0]
    ELSE LET before == QualitySum(dimension_scores, n - 1)
         IN  IF QualityDims[n] \in Keys(dimension_scores)
             THEN [quality_score |-> RAdd(before.quality_score,
                                          ScoreOf(dimension_scores, QualityDims[n])),
                   count |-> before.count + 1]
             ELSE before

\* a faulty rating that divides by three whichever dimensions are present
RatingOverThree(dimension_scores, tie_up) ==
    LET acc == QualitySum(dimension_scores, Len(QualityDims))
    IN  IF acc.count = 0 THEN Num(1)
        ELSE LET avg_score == RDiv(acc.quality_score, Num(3))
                 rating == RAdd(Num(1), RMul(RDiv(avg_score, Num(100)), Num(9)))
             IN  Round(rating, 10, tie_up)

_calculate_product_quality_rating(dimension_scores, tie_up) ==
    LET acc == QualitySum(dimension_scores, Len(QualityDims))
    IN  IF acc.count = 0 THEN Num(1)
        ELSE LET avg_score == RDiv(acc.quality_score, Num(acc.count))
                 rating == RAdd(Num(1), RMul(RDiv(avg_score, Num(100)), Num(9)))
             IN  Round(rating, 10, tie_up)

\* a faulty _score_to_grade whose lower bounds are open
GradeOpenBounds(score) ==
    IF RLt(Num(90), score) THEN "A"
    ELSE IF RLt(Num(80), score) THEN "B"
    ELSE IF RLt(Num(70), score) THEN "C"
    ELSE IF RLt(Num(60), score) THEN "D"
    ELSE "E"

_score_to_grade(score) ==
    IF RLe(Num(90), score) THEN "A"
    ELSE IF RLe(Num(80), score) THEN "B"
    ELSE IF RLe(Num(70), score) THEN "C"
    ELSE IF RLe(Num(60), score) THEN "D"
    ELSE "E"

\* sorted(scores.items(), key=lambda x: x[1])[0]: the first item, in
\* insertion order, among those of the least score
LowestItem(scores) ==
    scores[CHOOSE i \in DOMAIN scores :
              /\ \A j \in DOMAIN scores : RLe(scores[i][2], scores[j][2])
              /\ \A j \in 1..(i - 1) : scores[j][2] # scores[i][2]]

StrongNote == "Strong engineering practices. Ready for VC evaluation."
GoodNote == "Good engineering foundation. Some areas need improvement."
WeakNote == "Engineering practices need significant improvement before VC evaluation."

\* the note "Lowest scoring dimension: X (Y/100). Needs improvement."
LowestNote(dim, shown) == [note |-> "Lowest scoring dimension", dim |-> dim, shown |-> shown]
Sentence(text) == [note |-> text]

\* a faulty _generate_notes that also reports a lowest dimension at exactly 50
NotesUpTo50(scores, final_score, tie_up) ==
    LET lowest ==
            IF Len(scores) > 0 /\ RLe(LowestItem(scores)[2], Num(50))
            THEN <<LowestNote(LowestItem(scores)[1], Round(LowestItem(scores)[2], 10, tie_up))>>
            ELSE <<>>
        overall ==
            IF RLe(Num(80), final_score) THEN Sentence(StrongNote)
            ELSE IF RLe(Num(60), final_score) THEN Sentence(GoodNote)
            ELSE Sentence(WeakNote)
    IN  Append(lowest, overall)

_generate_notes(scores, final_score, tie_up) ==
    LET lowest ==
            IF Len(scores) > 0 /\ RLt(LowestItem(scores)[2], Num(50))
            THEN <<LowestNote(LowestItem(scores)[1], Round(LowestItem(scores)[2], 10, tie_up))>>
            ELSE <<>>
        overall ==
            IF RLe(Num(80), final_score) THEN Sentence(StrongNote)
            ELSE IF RLe(Num(60), final_score) THEN Sentence(GoodNote)
            ELSE Sentence(WeakNote)
    IN  Append(lowest, overall)

\* scores after the loop over the first n configured dimensions
RECURSIVE DimensionScores(_, _, _, _)
DimensionScores(root, self, dimensions_config, n) ==
    IF n = 0 THEN <<>>
    ELSE SetItem(DimensionScores(root, self, dimensions_config, n - 1),
                 Get(dimensions_config[n], "key", ""),
                 _calculate_dimension_score(root, self, dimensions_config[n]))

\* a faulty WeightedFinal in which a dimension without a weight counts fully
RECURSIVE FinalDefaultWeightOne(_, _, _)
FinalDefaultWeightOne(scores, weights, n) ==
    IF n = 0 THEN Num(0)
    ELSE RAdd(FinalDefaultWeightOne(scores, weights, n - 1),
              RMul(scores[n][2], Get(weights, scores[n][1], Num(1))))

\* final_score after the loop over the first n items of scores
RECURSIVE WeightedFinal(_, _, _)
WeightedFinal(scores, weights, n) ==
    IF n = 0 THEN Num(0)
    ELSE RAdd(WeightedFinal(scores, weights, n - 1),
              RMul(scores[n][2], Get(weights, scores[n][1], Num(0))))

ScoringModel(self) == Get(self.metrica_config, "scoring_model", <<>>)
DimensionsConfig(self) == Get(ScoringModel(self), "dimensions", <<>>)

\* an entry of the configured dimension list that is no JSON object but a
\* string, a number or a list: dimension.get raises on it
NotADict(dimension) == "t" \in DOMAIN dimension

\* the two loops of calculate_scores: its locals scores and final_score, or
\* Raised when a dimension raises
ScoreLocals(root, self) ==
    LET weights == Get(ScoringModel(self), "final_score_weights", <<>>)
    IN  IF \E i \in DOMAIN DimensionsConfig(self) : NotADict(DimensionsConfig(self)[i])
        THEN Raised
        ELSE
        CHOOSE locals \in
            {IF \E i \in DOMAIN scores : scores[i][2] = Raised THEN Raised
             ELSE [scores |-> scores,
                   final_score |-> WeightedFinal(scores, weights, Len(scores))] :
                scores \in {DimensionScores(root, self, DimensionsConfig(self),
                                             Len(DimensionsConfig(self)))}} : TRUE

\* calculate_scores from the locals its loops leave; ties: which way each of
\* the three roundings goes on a value halfway
calculate_scores(locals, repo_name, commit_sha, ties) ==
        IF locals = Raised THEN Raised
        ELSE [repo |-> repo_name,
              commit |-> commit_sha,
              generated_at |-> Now,
              scores |-> locals.scores,
              final_score |-> Round(locals.final_score, 100, ties.final),
              product_quality |->
                  [rating |-> _calculate_product_quality_rating(locals.scores, ties.rating),
                   scale |-> [min |-> 1, max |-> 10]],
              grade |-> _score_to_grade(locals.final_score),
              notes |-> _generate_notes(locals.scores, locals.final_score, ties.note)]

----------------------------------------------------------------------------
(* Inputs of the normalizer.                                               *)

\* scores a scoring model may configure, some outside 0..100
ConfigScores == {-20, 0, 40, 100, 150}

\* the raw values a metric may resolve or estimate to
RawValues ==
    {None, VBool(TRUE), VBool(FALSE), VStr("abc"), VStr("3"), VStr("B"), VStr(""),
     VList(<<>>), VList(<<VInt(1)>>), VDict(<<>>), VDict([lines |-> VInt(1)])}
    \cup {VInt(i) : i \in -1..MaxValue}
    \cup {VNum(Rat(2 * i + 1, 2)) : i \in 0..(MaxValue - 1)}

WithOptional(base, key, vals) ==
    {base} \cup {[k \in DOMAIN base \cup {key} |-> IF k = key THEN v ELSE base[k]] : v \in vals}

BooleanSpecs ==
    UNION {WithOptional(b, "false_score", ConfigScores) :
             b \in WithOptional([type |-> "boolean"], "true_score", ConfigScores)}

MappingSpecs ==
    {[type |-> "mapping"],
     [type |-> "mapping", mapping |-> [B |-> 80, True |-> 250, abc |-> -5]],
     [type |-> "mapping", mapping |-> [A |-> 100, B |-> 80, C |-> 60]]}

\* a threshold dict {key: bound, "score": score}
Threshold(key, bound, score) ==
    [k \in {key, "score"} |-> IF k = "score" THEN score ELSE bound]

SeqsUpTo(S, n) == UNION {[1..k -> S] : k \in 0..n}

\* threshold lists of any kind, for the general normalizer runs
MaxMixed == 2

MixedThresholdSet ==
    {Threshold(key, b, s) : key \in {"lte", "gte"}, b \in {2, 4}, s \in {-20, 40, 150}}

ThresholdSpecs ==
    {[type |-> "thresholds"]}
    \cup {[type |-> "thresholds", thresholds |-> ts] :
            ts \in SeqsUpTo(MixedThresholdSet, MaxMixed)}
    \cup {[type |-> "thresholds", thresholds |-> ts, direction |-> dir,
           interpolate_between_points |-> ip] :
            ts \in SeqsUpTo(MixedThresholdSet, MaxMixed),
            dir \in {"lower_is_better", "higher_is_better"}, ip \in BOOLEAN}

OtherSpecs == {[type |-> "percent"], [kind |-> "boolean"]}

NormalizationSpecs == BooleanSpecs \cup MappingSpecs \cup ThresholdSpecs \cup OtherSpecs

\* pure ladders: thresholds of the one kind the direction uses
LadderBounds == {1, 3, 5}
LadderScores == {0, 40, 100}
LadderValues == {VInt(i) : i \in -1..MaxValue}

LadderSpecs ==
    {[type |-> "thresholds", thresholds |-> ts, direction |-> "lower_is_better",
      interpolate_between_points |-> ip] :
        ts \in SeqsUpTo({Threshold("lte", b, s) : b \in LadderBounds, s \in LadderScores},
                        MaxLadder) \ {<<>>},
        ip \in BOOLEAN}
    \cup
    {[type |-> "thresholds", thresholds |-> ts, direction |-> "higher_is_better",
      interpolate_between_points |-> ip] :
        ts \in SeqsUpTo({Threshold("gte", b, s) : b \in LadderBounds, s \in LadderScores},
                        MaxLadder) \ {<<>>},
        ip \in BOOLEAN}

----------------------------------------------------------------------------
(* Running the normalizer: the inputs are drawn in the initial state, the  *)
(* action applies _normalize_value to them.                                *)

Pending == [t |-> "pending"]
Ret(v) == [t |-> "ret", v |-> v]

\* a ScoringSystem built with no stack info and the default empty model
BareSystem ==
    [stack_info |-> <<>>, repo_facts |-> <<>>, metrics |-> <<>>,
     metrica_config |-> [scoring_model |-> [dimensions |-> <<>>]]]

NoFiles == <<>>

InitNormalize ==
    /\ pc = "normalize"
    /\ inp \in [value : RawValues, normalization : NormalizationSpecs]
    /\ out = Pending
    /\ evidence = NoFiles
    /\ system = BareSystem

InitLadder ==
    /\ pc = "normalize"
    /\ inp \in [value : LadderValues, normalization : LadderSpecs]
    /\ out = Pending
    /\ evidence = NoFiles
    /\ system = BareSystem

Normalize ==
    /\ pc = "normalize"
    /\ pc' = "normalized"
    /\ out' = Ret(_normalize_value(inp.value, inp.normalization))
    /\ UNCHANGED <<inp, evidence, system>>

SpecNormalize == InitNormalize /\ [][Normalize]_vars

SpecLadder == InitLadder /\ [][Normalize]_vars

----------------------------------------------------------------------------
(* Claims about the normalizer.                                            *)

InRange(q, lo, hi) == RLe(Num(lo), q) /\ RLe(q, Num(hi))

NormalizedTyped ==
    /\ pc = "normalized"
    /\ Get(inp.normalization, "type", "") \in {"thresholds", "boolean", "mapping"}

\* C1: for every raw value and every NormalizationSpec of type thresholds,
\* boolean or mapping, whatever scores it configures, _normalize_value
\* returns a number in [0,100], and 0.0 for an absent value.
C1_NormalizeWithin0To100 ==
    NormalizedTyped =>
        /\ InRange(out.v, 0, 100)
        /\ (inp.value = None => out.v = Num(0))

\* C8: for every boolean NormalizationSpec, true normalizes to the configured
\* true_score and false to the configured false_score; an unconfigured
\* true_score counts as 100 and an unconfigured false_score as 0.
C8_BooleanScores ==
    (pc = "normalized" /\ Get(inp.normalization, "type", "") = "boolean") =>
        /\ (inp.value = VBool(TRUE) =>
              out.v = IF "true_score" \in DOMAIN inp.normalization
                      THEN Num(inp.normalization.true_score) ELSE Num(100))
        /\ (inp.value = VBool(FALSE) =>
              out.v = IF "false_score" \in DOMAIN inp.normalization
                      THEN Num(inp.normalization.false_score) ELSE Num(0))

C8_Witness ==
    /\ pc = "normalized"
    /\ inp.normalization = [type |-> "boolean", false_score |-> 40]
    /\ inp.value = VBool(TRUE)
    /\ out.v = Num(100)

\* the pure gte ladder of a run, without interpolation
GteStepRun ==
    /\ pc = "normalized"
    /\ inp.normalization.direction = "higher_is_better"
    /\ ~inp.normalization.interpolate_between_points

ScoresOf(thresholds) == {Num(thresholds[i].score) : i \in DOMAIN thresholds}

StepFunction == out.v \in ScoresOf(inp.normalization.thresholds)

MonotoneBelow ==
    \A y \in LadderValues :
        RLe(y.q, inp.value.q) => RLe(_normalize_value(y, inp.normalization), out.v)

\* a ladder has one threshold per bound
DistinctBounds(thresholds, key) ==
    \A i, j \in DOMAIN thresholds : i # j => thresholds[i][key] # thresholds[j][key]

\* C9 as stated: for every higher_is_better ladder of gte thresholds without
\* interpolation the result is the score of one of the thresholds and
\* normalize(x) >= normalize(y) for all values x >= y.
C9_StepMonotoneAnyLadder ==
    (GteStepRun /\ DistinctBounds(inp.normalization.thresholds, "gte")) =>
        (StepFunction /\ MonotoneBelow)

\* a threshold with a larger bound never has a smaller score, and of two
\* thresholds with the same bound the one listed later never has a larger one
ScoresRiseWithBounds(thresholds) ==
    \A i, j \in DOMAIN thresholds :
        /\ thresholds[i].gte > thresholds[j].gte => thresholds[i].score >= thresholds[j].score
        /\ (thresholds[i].gte = thresholds[j].gte /\ i < j) =>
               thresholds[i].score >= thresholds[j].score

\* C9 (amended): for every higher_is_better ladder of gte thresholds without
\* interpolation the result is the score of one of the thresholds; it is
\* monotone in the value when the scores rise with the bounds.
C9_StepMonotoneRisingLadder ==
    GteStepRun =>
        /\ StepFunction
        /\ (ScoresRiseWithBounds(inp.normalization.thresholds) => MonotoneBelow)

C9_Witness ==
    /\ GteStepRun
    /\ inp.normalization.thresholds =
          <<Threshold("gte", 1, 0), Threshold("gte", 5, 100), Threshold("gte", 3, 40)>>
    /\ inp.value = VInt(4)
    /\ out.v = Num(40)

LadderKey == IF inp.normalization.direction = "lower_is_better" THEN "lte" ELSE "gte"

----------------------------------------------------------------------------
(* Running the aggregator's helpers on drawn scores.                       *)

\* most dimensions in a drawn scores dict
MaxDims == 3

DimKeys == {"maintainability", "security", "scalability", "velocity"}
DimScores == {Num(0), Num(5), Num(33), Num(50), Num(100)}

\* scores dicts: up to MaxDims items with distinct keys, in any order
ScoreDicts ==
    {sc \in SeqsUpTo(DimKeys \X DimScores, MaxDims) :
        \A i, j \in DOMAIN sc : i # j => sc[i][1] # sc[j][1]}

FinalScores ==
    {Num(-5), Num(0), Rat(59999, 1000), Num(60), Rat(69999, 1000), Num(70),
     Rat(79999, 1000), Num(80), Rat(89999, 1000), Num(90), Num(100), Num(135)}

NoteFinals == {Num(0), Rat(59999, 1000), Num(60), Rat(79999, 1000), Num(80)}

InitAggregate ==
    /\ \/ pc = "grade" /\ inp \in [score : FinalScores]
       \/ pc = "rate"  /\ inp \in [dimension_scores : ScoreDicts]
       \/ pc = "notes" /\ inp \in [scores : ScoreDicts, final_score : NoteFinals]
    /\ out = Pending
    /\ evidence = NoFiles
    /\ system = BareSystem

Grade ==
    /\ pc = "grade"
    /\ pc' = "graded"
    /\ out' = Ret(_score_to_grade(inp.score))
    /\ UNCHANGED <<inp, evidence, system>>

Rate ==
    /\ pc = "rate"
    /\ pc' = "rated"
    /\ \E tie_up \in BOOLEAN :
          out' = Ret(_calculate_product_quality_rating(inp.dimension_scores, tie_up))
    /\ UNCHANGED <<inp, evidence, system>>

Notes ==
    /\ pc = "notes"
    /\ pc' = "noted"
    /\ \E tie_up \in BOOLEAN :
          out' = Ret(_generate_notes(inp.scores, inp.final_score, tie_up))
    /\ UNCHANGED <<inp, evidence, system>>

NextAggregate == Grade \/ Rate \/ Notes

SpecAggregate == InitAggregate /\ [][NextAggregate]_vars

----------------------------------------------------------------------------
(* Claims about the aggregator's helpers.                                  *)

\* C4: the grade is a total function of the final score with closed lower
\* bounds: >= 90 gives A, [80,90) B, [70,80) C, [60,70) D, anything below 60
\* (negative scores too) E; exactly 90.0 gives A and 89.999 gives B.
C4_GradeBands ==
    pc = "graded" =>
        /\ out.v \in {"A", "B", "C", "D", "E"}
        /\ (out.v = "A" <=> RLe(Num(90), inp.score))
        /\ (out.v = "B" <=> (RLe(Num(80), inp.score) /\ RLt(inp.score, Num(90))))
        /\ (out.v = "C" <=> (RLe(Num(70), inp.score) /\ RLt(inp.score, Num(80))))
        /\ (out.v = "D" <=> (RLe(Num(60), inp.score) /\ RLt(inp.score, Num(70))))
        /\ (out.v = "E" <=> RLt(inp.score, Num(60)))
        /\ (inp.score = Num(90) => out.v = "A")
        /\ (inp.score = Rat(89999, 1000) => out.v = "B")

C4_Witness == pc = "graded" /\ inp.score = Num(90) /\ out.v = "A"

\* the quality dimensions present in a scores dict, and their mean score
QualityPresent(scores) == {"maintainability", "security", "scalability"} \cap Keys(scores)
ScoreOrZero(scores, key) == IF key \in Keys(scores) THEN ScoreOf(scores, key) ELSE Num(0)
QualityMean(scores) ==
    RDiv(RAdd(ScoreOrZero(scores, "maintainability"),
              RAdd(ScoreOrZero(scores, "security"), ScoreOrZero(scores, "scalability"))),
         Num(Cardinality(QualityPresent(scores))))
ExactRating(scores) ==
    IF QualityPresent(scores) = {} THEN Num(1)
    ELSE RAdd(Num(1), RDiv(RMul(Num(9), QualityMean(scores)), Num(100)))

\* C5 as stated: the rating is 1 + 9 x avg/100 over the present ones of
\* maintainability, security and scalability, 1.0 when none is present, and
\* lies in [1,10].
C5_RatingIsLinearMap ==
    pc = "rated" =>
        /\ out.v = ExactRating(inp.dimension_scores)
        /\ InRange(out.v, 1, 10)

\* C5 (amended): the rating is 1 + 9 x avg/100 rounded to one decimal place
\* (a multiple of 0.1 at most 0.05 away from it), where avg is the mean of
\* the present ones of maintainability, security and scalability; it is 1.0
\* when none is present and lies in [1,10].
C5_RatingIsRoundedLinearMap ==
    pc = "rated" =>
        /\ RMul(out.v, Num(10)).d = 1
        /\ RLe(RSub(out.v, ExactRating(inp.dimension_scores)), Rat(1, 20))
        /\ RLe(RSub(ExactRating(inp.dimension_scores), out.v), Rat(1, 20))
        /\ (QualityPresent(inp.dimension_scores) = {} => out.v = Num(1))
        /\ InRange(out.v, 1, 10)

C5_Witness ==
    /\ pc = "rated"
    /\ inp.dimension_scores =
          <<<<"velocity", Num(100)>>, <<"security", Num(33)>>, <<"scalability", Num(0)>>>>
    /\ out.v = Rat(25, 10)

OverallSentences == {Sentence(StrongNote), Sentence(GoodNote), Sentence(WeakNote)}

BandSentence(final_score) ==
    IF RLe(Num(80), final_score) THEN Sentence(StrongNote)
    ELSE IF RLe(Num(60), final_score) THEN Sentence(GoodNote)
    ELSE Sentence(WeakNote)

SomeBelow50(scores) == \E i \in DOMAIN scores : RLt(scores[i][2], Num(50))

IsLowestNoteOf(n, scores) ==
    /\ n.note = "Lowest scoring dimension"
    /\ \E i \in DOMAIN scores :
          /\ scores[i][1] = n.dim
          /\ \A j \in DOMAIN scores : RLe(scores[i][2], scores[j][2])

\* C6: the notes end with exactly one overall-assessment sentence, chosen by
\* the band of the final score (>= 80, >= 60, else); it is preceded by one
\* 'Lowest scoring dimension' note naming a minimum-score dimension if and
\* only if some dimension scores below 50; there are never more than two.
C6_NotesShape ==
    pc = "noted" =>
        /\ Len(out.v) \in {1, 2}
        /\ out.v[Len(out.v)] = BandSentence(inp.final_score)
        /\ Cardinality({i \in DOMAIN out.v : out.v[i] \in OverallSentences}) = 1
        /\ (Len(out.v) = 2 <=> SomeBelow50(inp.scores))
        /\ (Len(out.v) = 2 => IsLowestNoteOf(out.v[1], inp.scores))

C6_Witness ==
    /\ pc = "noted"
    /\ inp.scores = <<<<"velocity", Num(33)>>, <<"security", Num(5)>>>>
    /\ inp.final_score = Num(60)
    /\ out.v = <<LowestNote("security", Num(5)), Sentence(GoodNote)>>

----------------------------------------------------------------------------
(* Evidence roots: each evidence file is missing, unparsable, of an        *)
(* unexpected shape, or as the generator writes it.                        *)

DepsScaFiles ==
    {Missing, Invalid, Json(VList(<<>>)), Json(VInt(3)), Json(VDict(<<>>)),
     Json(VDict([summary |-> VStr("none")])),
     Json(VDict([summary |-> VDict([critical |-> VStr("abc")])])),
     Json(VDict([summary |-> VDict([critical |-> VInt(0)])])),
     Json(VDict([summary |-> VDict([critical |-> VInt(2)])]))}

SecurityFiles ==
    {Missing, Json(VList(<<>>)), Json(VDict([critical_open |-> VInt(5)]))}

CoverageFiles ==
    {Missing, Invalid, Json(VStr("lines")), Json(VDict([lines |-> VList(<<>>)])),
     Json(VDict([lines |-> VInt(65)]))}

\* a commit record of change/commits.json, dated `days` days ago in UTC
Commit(email, days) ==
    VDict([author |-> VDict([email |-> VStr(email)]),
           date |-> IsoDate(0 - days * HoursPerDay, Offset(0)),
           message |-> VStr("feat: login")])

CommitsFiles ==
    {Missing, Invalid, Json(VInt(7)), Json(VList(<<VStr("recent_commits")>>)),
     Json(VDict(<<>>)),
     Json(VDict([recent_commits |-> VStr("abc")])),
     Json(VDict([recent_commits |-> VList(<<VInt(1)>>)])),
     Json(VDict([recent_commits |->
            VList(<<Commit("x@co", 1), VDict([author |-> VStr("x@co")])>>)])),
     Json(VDict([recent_commits |->
            VList(<<Commit("x@co", 1), Commit("y@co", 2), Commit("x@co", 100)>>)]))}

HistoryFiles ==
    {Missing, Json(VDict([contributors |-> VStr("none")])),
     Json(VDict([contributors |-> VDict([top1_share_pct |-> VInt(40)])]))}

BuildFiles == {Missing, Json(VDict(<<>>))}

EvidencePaths ==
    {"security/deps-sca.json", "security/security.json", "quality/coverage-summary.json",
     "change/commits.json", "change/history.json", "build/build.json"}

EvidenceRoots ==
    {[p \in EvidencePaths |->
        CASE p = "security/deps-sca.json" -> deps
          [] p = "security/security.json" -> sec
          [] p = "quality/coverage-summary.json" -> cov
          [] p = "change/commits.json" -> commits
          [] p = "change/history.json" -> history
          [] p = "build/build.json" -> build] :
        deps \in DepsScaFiles, sec \in SecurityFiles, cov \in CoverageFiles,
        commits \in CommitsFiles, history \in HistoryFiles, build \in BuildFiles}

----------------------------------------------------------------------------
(* Scoring models.                                                         *)

Metric(key, weight, source, normalization) ==
    [key |-> key, metric_weight |-> weight, source |-> source, normalization |-> normalization]

\* a metric with no source
Unsourced(key, weight, normalization) ==
    [key |-> key, metric_weight |-> weight, normalization |-> normalization]

Ladder(direction, interpolate, thresholds) ==
    [type |-> "thresholds", direction |-> direction,
     interpolate_between_points |-> interpolate, thresholds |-> thresholds]

CvesMetric(weight) ==
    Metric("critical_cves_open", weight,
           [path |-> "security/deps-sca.json", field |-> <<"critical_open">>],
           Ladder("lower_is_better", FALSE,
                  <<Threshold("lte", 0, 100), Threshold("lte", 2, 60), Threshold("lte", 5, 0)>>))

CoverageMetric(weight) ==
    Metric("coverage_core_pct", weight,
           [path |-> "quality/coverage-summary.json", field |-> <<"core_modules_coverage_pct">>],
           Ladder("higher_is_better", TRUE,
                  <<Threshold("gte", 80, 100), Threshold("gte", 50, 60), Threshold("gte", 0, 0)>>))

Top1Metric(weight) ==
    Metric("top1_author_share_pct", weight,
           [path |-> "change/commits.json", field |-> <<"contributors", "top1_share_pct">>],
           Ladder("lower_is_better", FALSE,
                  <<Threshold("lte", 50, 100), Threshold("lte", 80, 50)>>))

MaintainersMetric(weight) ==
    Metric("active_maintainers_count", weight,
           [path |-> "change/commits.json",
            field |-> <<"contributors", "active_maintainers_90d">>],
           Ladder("higher_is_better", FALSE,
                  <<Threshold("gte", 2, 100), Threshold("gte", 1, 50), Threshold("gte", 0, 0)>>))

\* a boolean metric whose configured scores lie outside 0..100
CiCdMetric(weight) ==
    Unsourced("ci_cd_present", weight,
              [type |-> "boolean", true_score |-> 150, false_score |-> -20])

DeploysMetric(weight) ==
    Unsourced("deploys_per_month", weight,
              Ladder("higher_is_better", FALSE,
                     <<Threshold("gte", 4, 100), Threshold("gte", 1, 50), Threshold("gte", 0, 0)>>))

\* deploys_per_month read from a configured source
SourcedDeploysMetric(weight) ==
    Metric("deploys_per_month", weight,
           [path |-> "security/deps-sca.json", field |-> <<"summary", "critical">>],
           Ladder("higher_is_better", FALSE,
                  <<Threshold("gte", 4, 100), Threshold("gte", 1, 50), Threshold("gte", 0, 0)>>))

\* a metric no evidence file and no heuristic knows
CustomMetric(weight) == Unsourced("custom_metric", weight, [type |-> "boolean"])

DimensionDefs ==
    {[key |-> "security"],
     [key |-> "security", metrics |-> <<>>],
     [key |-> "security", metrics |-> <<CvesMetric(0), CustomMetric(0)>>],
     [key |-> "security", metrics |-> <<CustomMetric(1), CustomMetric(2)>>],
     [key |-> "security", metrics |-> <<CvesMetric(3), CustomMetric(1)>>],
     [key |-> "maintainability", metrics |-> <<CoverageMetric(2), CustomMetric(1)>>],
     [key |-> "bus_factor", metrics |-> <<Top1Metric(1), MaintainersMetric(1)>>],
     [key |-> "governance", metrics |-> <<CiCdMetric(1)>>],
     [key |-> "governance", metrics |-> <<CiCdMetric(3), CustomMetric(1)>>],
     [key |-> "velocity", metrics |-> <<DeploysMetric(1), CiCdMetric(1)>>],
     [key |-> "velocity", metrics |-> <<SourcedDeploysMetric(1)>>]}

StackInfos == {<<>>, [frameworks |-> {"NestJS"}, has_typescript |-> TRUE]}

\* the built-in default model: weights and no dimensions
DefaultConfig ==
    [scoring_model |->
        [final_score_weights |->
            [velocity |-> Rat(20, 100), stability |-> Rat(15, 100),
             scalability |-> Rat(15, 100), security |-> Rat(15, 100),
             maintainability |-> Rat(15, 100), bus_factor |-> Rat(10, 100),
             governance |-> Rat(10, 100)],
         dimensions |-> <<>>]]

\* two dimensions a and b weighted one half each
HalvesConfig ==
    [scoring_model |->
        [final_score_weights |-> [a |-> Rat(1, 2), b |-> Rat(1, 2)],
         dimensions |->
            <<[key |-> "a", metrics |-> <<CoverageMetric(1)>>],
              [key |-> "b", metrics |-> <<CvesMetric(1)>>]>>]]

\* weights that sum to more than 1, lack governance and name a dimension
\* that is not configured
UnevenConfig ==
    [scoring_model |->
        [final_score_weights |->
            [security |-> Rat(1, 2), maintainability |-> Rat(3, 10),
             bus_factor |-> Rat(3, 10), velocity |-> Rat(1, 10), ghost |-> Rat(1, 2)],
         dimensions |->
            <<[key |-> "security", metrics |-> <<CvesMetric(3), CustomMetric(1)>>],
              [key |-> "maintainability", metrics |-> <<CoverageMetric(1)>>],
              [key |-> "bus_factor", metrics |-> <<Top1Metric(1), MaintainersMetric(1)>>],
              [key |-> "governance", metrics |-> <<CiCdMetric(1)>>],
              [key |-> "velocity", metrics |-> <<DeploysMetric(1)>>]>>]]

\* one dimension whose weight puts a full score just below the A band
NearBandConfig ==
    [scoring_model |->
        [final_score_weights |-> [security |-> Rat(89996, 100000)],
         dimensions |-> <<[key |-> "security", metrics |-> <<CvesMetric(1)>>]>>]]

Configs == {DefaultConfig, HalvesConfig, UnevenConfig, NearBandConfig}

Systems ==
    {[stack_info |-> st, repo_facts |-> <<>>, metrics |-> <<>>, metrica_config |-> cfg] :
        st \in StackInfos, cfg \in Configs}

----------------------------------------------------------------------------
(* Running the dimension scorer on a drawn evidence root and dimension.    *)

InitDimension ==
    /\ pc = "dimension"
    /\ evidence \in EvidenceRoots
    /\ system \in {sy \in Systems : sy.metrica_config = DefaultConfig}
    /\ inp \in [dimension : DimensionDefs]
    /\ out = Pending

DimensionScore ==
    /\ pc = "dimension"
    /\ pc' = "dimension_scored"
    /\ out' = [t |-> "ret",
               v |-> _calculate_dimension_score(evidence, system, inp.dimension),
               trace |-> DimensionTrace(evidence, system, inp.dimension)]
    /\ UNCHANGED <<inp, evidence, system>>

SpecDimension == InitDimension /\ [][DimensionScore]_vars

----------------------------------------------------------------------------
(* Running calculate_scores on a drawn evidence root and scoring system.   *)

Ties == [final : BOOLEAN, rating : BOOLEAN, note : BOOLEAN]

\* what the resolver returned for every metric of the configured dimensions
Resolutions(root, self) ==
    LET dimensions_config == DimensionsConfig(self)
    IN  UNION {{_get_metric_value(root, Get(Get(dimensions_config[i], "metrics", <<>>)[j],
                                            "source", <<>>)) :
                  j \in DOMAIN Get(dimensions_config[i], "metrics", <<>>)} :
               i \in DOMAIN dimensions_config}

InitScores ==
    /\ pc = "scores"
    /\ evidence \in EvidenceRoots
    /\ system \in Systems
    /\ inp = [repo_name |-> "repo", commit_sha |-> "abc123"]
    /\ out = Pending

CalculateScores ==
    /\ pc = "scores"
    /\ pc' = "scored"
    /\ \E locals \in {ScoreLocals(evidence, system)}, ties \in Ties :
              out' = [t |-> "ret",
                      v |-> calculate_scores(locals, inp.repo_name, inp.commit_sha, ties),
                      final_score |-> IF locals = Raised THEN None ELSE locals.final_score,
                      resolved |-> Resolutions(evidence, system)]
    /\ UNCHANGED <<inp, evidence, system>>

SpecScores == InitScores /\ [][CalculateScores]_vars

----------------------------------------------------------------------------
(* Claims about the dimension scorer and calculate_scores.                 *)

\* C2: for every dimension definition with non-negative metric weights and
\* any mix of resolved, estimated and absent metric values, the dimension
\* score lies in [0,100]; it is exactly 0.0 when the metrics list is empty,
\* when the weights sum to 0, and when every metric stays absent.
C2_DimensionScoreWithin0To100 ==
    pc = "dimension_scored" =>
        LET metrics == Get(inp.dimension, "metrics", <<>>)
        IN  /\ out.v # Raised
            /\ InRange(out.v, 0, 100)
            /\ (Len(metrics) = 0 => out.v = Num(0))
            /\ (SumWeights(metrics) = 0 => out.v = Num(0))
            /\ ((\A i \in DOMAIN out.trace : out.trace[i].value = None) => out.v = Num(0))

\* the clamp at work: a boolean metric scored 150 yields a dimension score of 100
C2_Witness ==
    /\ pc = "dimension_scored"
    /\ Len(out.trace) = 1
    /\ out.trace[1].normalized_score = Num(150)
    /\ out.v = Num(100)

\* the sum over a set of dimension keys of score x weight, weight 0 when
\* the key has none
RECURSIVE SumOverDimensions(_, _, _)
SumOverDimensions(keys, scores, weights) ==
    IF keys = {} THEN Num(0)
    ELSE LET k == CHOOSE x \in keys : TRUE
         IN  RAdd(RMul(ScoreOf(scores, k), IF k \in DOMAIN weights THEN weights[k] ELSE Num(0)),
                  SumOverDimensions(keys \ {k}, scores, weights))

ConfiguredKeys(self) ==
    {Get(DimensionsConfig(self)[i], "key", "") : i \in DOMAIN DimensionsConfig(self)}

\* C3: the final score that calculate_scores computes is the sum over the
\* configured dimensions of score x weight, a dimension without a weight
\* taking weight 0 and a weight without a dimension adding nothing; the sum
\* is not divided by the total weight: weights {a: 0.5, b: 0.5} with scores
\* {a: 80, b: 60} give exactly 70.0.
C3_FinalIsWeightedSum ==
    pc = "scored" =>
        LET weights == Get(ScoringModel(system), "final_score_weights", <<>>)
        IN  /\ out.v # Raised
            /\ Keys(out.v.scores) = ConfiguredKeys(system)
            /\ out.final_score = SumOverDimensions(ConfiguredKeys(system), out.v.scores, weights)
            /\ (/\ weights = [a |-> Rat(1, 2), b |-> Rat(1, 2)]
                /\ out.v.scores = <<<<"a", Num(80)>>, <<"b", Num(60)>>>>)
                  => (out.final_score = Num(70) /\ out.v.final_score = Num(70))

C3_Witness ==
    /\ pc = "scored"
    /\ system.metrica_config = HalvesConfig
    /\ out.v.scores = <<<<"a", Num(80)>>, <<"b", Num(60)>>>>
    /\ out.final_score = Num(70)

ResultKeys ==
    {"repo", "commit", "generated_at", "scores", "final_score", "product_quality",
     "grade", "notes"}

----------------------------------------------------------------------------
(* Running the resolver on a drawn evidence root and metric source.        *)

\* an evidence root that holds only change/commits.json, with three commits
\* of the last 90 days: two by x@co and one by y@co
CommitsOnlyRoot ==
    [p \in EvidencePaths |->
        IF p = "change/commits.json"
        THEN Json(VDict([recent_commits |->
                 VList(<<Commit("x@co", 1), Commit("y@co", 2), Commit("x@co", 3)>>)]))
        ELSE Missing]

\* an evidence root whose files hold both the field a metric names and the
\* field the remapping table substitutes for it
RemappedRoot ==
    [p \in EvidencePaths |->
        CASE p = "security/deps-sca.json" ->
                Json(VDict([critical_open |-> VInt(5),
                            summary |-> VDict([critical |-> VInt(2)])]))
          [] p = "quality/coverage-summary.json" ->
                Json(VDict([core_modules_coverage_pct |-> VInt(90), lines |-> VInt(65)]))
          [] OTHER -> Missing]

ResolveRoots == EvidenceRoots \cup {CommitsOnlyRoot, RemappedRoot}

\* the `source` entries of metric definitions: remapped, computed, plain
\* dotted and plain single fields, a path with no alternatives, and sources
\* that lack a path or a field
ResolveSources ==
    {[path |-> "security/deps-sca.json", field |-> <<"critical_open">>],
     [path |-> "security/deps-sca.json", field |-> <<"summary", "critical">>],
     [path |-> "quality/coverage-summary.json", field |-> <<"core_modules_coverage_pct">>],
     [path |-> "quality/coverage-summary.json", field |-> <<"lines">>],
     [path |-> "change/commits.json", field |-> <<"contributors", "top1_share_pct">>],
     [path |-> "change/commits.json", field |-> <<"contributors", "active_maintainers_90d">>],
     [path |-> "change/commits.json", field |-> <<"recent_commits">>],
     [path |-> "build/build.json", field |-> <<"status">>],
     [path |-> "build/build.json"],
     [field |-> <<"status">>]}

InitResolve ==
    /\ pc = "resolve"
    /\ evidence \in ResolveRoots
    /\ system = BareSystem
    /\ inp \in [source : ResolveSources]
    /\ out = Pending

Resolve ==
    /\ pc = "resolve"
    /\ pc' = "resolved"
    /\ out' = Ret(_get_metric_value(evidence, inp.source))
    /\ UNCHANGED <<inp, evidence, system>>

SpecResolve == InitResolve /\ [][Resolve]_vars

----------------------------------------------------------------------------
(* Claims about the resolver.                                              *)

\* the source names both a path and a field
Sourced(source) == {"path", "field"} \subseteq DOMAIN source

\* the value at the end of a dotted field of a document, None when a segment
\* is missing or a value before the last segment is no mapping
RECURSIVE AtField(_, _)
AtField(doc, field) ==
    IF field = <<>> THEN doc
    ELSE IF doc.t = "dict" /\ Head(field) \in DOMAIN doc.m
    THEN AtField(doc.m[Head(field)], Tail(field))
    ELSE None

\* the files a read of the source may open, each with the field read in it:
\* the primary file with the remapped field, the alternatives with the
\* original one
ReadPaths(source) ==
    {<<source.path,
       IF FieldMapping(source.path, source.field).kind = "field"
       THEN FieldMapping(source.path, source.field).field ELSE source.field>>}
    \cup {<<AlternativePaths(source.path)[i], source.field>> :
            i \in {j \in DOMAIN AlternativePaths(source.path) :
                     AlternativePaths(source.path)[j] # source.path}}

\* the values the dotted field has in the parsable files of the read paths
FullReads(root, source) ==
    {AtField(Load(root, pf[1]), pf[2]) :
       pf \in {qf \in ReadPaths(source) : Load(root, qf[1]) # Raised}}

\* the primary file exists and the field is answered by a computed function
Computed(root, source) ==
    /\ Exists(root, source.path)
    /\ FieldMapping(source.path, source.field).kind \in {"top1_share", "active_maintainers"}

\* C11: a read of a dotted field never yields a partial result: on every
\* read path (the primary file and each alternative file) the result is the
\* value at the end of the dotted field or absent, never an intermediate
\* value of the walk.
C11_NoPartialReads ==
    (pc = "resolved" /\ Sourced(inp.source) /\ ~Computed(evidence, inp.source)) =>
        out.v \in FullReads(evidence, inp.source) \cup {None}

\* the field read in the primary file: the remapped one when the table has
\* an entry naming another field
PrimaryField(source) ==
    IF FieldMapping(source.path, source.field).kind = "field"
    THEN FieldMapping(source.path, source.field).field ELSE source.field

\* the read of the primary path fails: the file is missing, is not valid
\* JSON, or does not contain the requested field
PrimaryFails(root, source) ==
    \/ Load(root, source.path) = Raised
    \/ /\ ~Computed(root, source)
       /\ AtField(Load(root, source.path), PrimaryField(source)) = None

\* the configured alternative paths of a source path, the path itself left out
OtherPaths(source_path) ==
    SelectSeq(AlternativePaths(source_path), LAMBDA p : p # source_path)

\* the first value the field has in the alternative files, taken in order;
\* None when every alternative is missing, unparsable or lacks the field
RECURSIVE FirstFound(_, _, _)
FirstFound(root, alt_paths, field) ==
    IF alt_paths = <<>> THEN None
    ELSE IF Load(root, Head(alt_paths)) # Raised
            /\ AtField(Load(root, Head(alt_paths)), field) # None
    THEN AtField(Load(root, Head(alt_paths)), field)
    ELSE FirstFound(root, Tail(alt_paths), field)

\* C12: whenever the read of the primary path fails (file missing, not
\* valid JSON, or without the requested field) and the source path has
\* alternative paths, the resolver returns the first value found in the
\* alternatives taken in order, and absent only when every alternative
\* fails too.
C12_FallbackOnAnyPrimaryFailure ==
    (/\ pc = "resolved"
     /\ Sourced(inp.source)
     /\ OtherPaths(inp.source.path) # <<>>
     /\ PrimaryFails(evidence, inp.source)) =>
        out.v = FirstFound(evidence, OtherPaths(inp.source.path), inp.source.field)

\* the remapping table as the claim states it: the fields replaced by
\* another field, and the fields answered by a computed function
Substitutes ==
    (<<"security/deps-sca.json", <<"critical_open">>>> :> <<"summary", "critical">>)
    @@ (<<"security/deps-sca.json", <<"high_open">>>> :> <<"summary", "high">>)
    @@ (<<"security/deps-sca.json", <<"medium_open">>>> :> <<"summary", "medium">>)
    @@ (<<"quality/coverage-summary.json", <<"core_modules_coverage_pct">>>> :> <<"lines">>)

ComputedFields ==
    {<<"change/commits.json", <<"contributors", "top1_share_pct">>>>,
     <<"change/commits.json", <<"contributors", "active_maintainers_90d">>>>}

\* what the resolver returns for the result of a computed function
ResultOf(r) == IF r = Raised THEN None ELSE r

\* C13: when the primary file is read, resolution follows exactly one of
\* three rules: with no remap entry the original field is read; with an
\* entry naming another field the value at the substituted field is returned
\* and the original field is not read; with an entry naming a computed
\* function the function's result on the whole document is returned, even
\* when the document has no such field.
C13_ThreeResolutionRules ==
    (pc = "resolved" /\ Sourced(inp.source) /\ Load(evidence, inp.source.path) # Raised) =>
        LET data == Load(evidence, inp.source.path)
            pf   == <<inp.source.path, inp.source.field>>
        IN  CASE pf = <<"change/commits.json", <<"contributors", "top1_share_pct">>>> ->
                    out.v = ResultOf(_calculate_top1_share(data))
              [] pf = <<"change/commits.json", <<"contributors", "active_maintainers_90d">>>> ->
                    out.v = ResultOf(_calculate_active_maintainers(data))
              [] pf \in DOMAIN Substitutes -> out.v = AtField(data, Substitutes[pf])
              [] OTHER -> out.v = AtField(data, inp.source.field)

\* a document holds the original field and the substituted one, and the
\* value of the substituted one is returned
C13_Witness ==
    /\ pc = "resolved"
    /\ evidence = RemappedRoot
    /\ inp.source = [path |-> "security/deps-sca.json", field |-> <<"critical_open">>]
    /\ AtField(Load(evidence, inp.source.path), inp.source.field) = VInt(5)
    /\ out.v = VInt(2)

----------------------------------------------------------------------------
(* Running the derived commit statistics on a drawn commit list.           *)

MaxCommits == 3

\* the `author` entries of a commit: two authors with an email, and an
\* author without email, no author at all (Missing), an author that is no
\* mapping
CommitAuthors == {VDict([email |-> VStr("x@co")]), VDict([email |-> VStr("y@co")])}

OddAuthors == {VDict(<<>>), Missing, VStr("x@co")}

\* the `date` entries of a commit: one day old, at and just past the 90-day
\* limit without a timezone, on either side of the limit once the UTC
\* offset is applied, malformed, empty, and absent (Missing)
CommitDates ==
    {IsoDate(0 - HoursPerDay, Offset(0)),
     IsoDate(0 - Days90 * HoursPerDay, Naive),
     IsoDate(0 - Days90 * HoursPerDay - 1, Naive),
     IsoDate(0 - Days90 * HoursPerDay - 1, Offset(0 - 2)),
     IsoDate(0 - Days90 * HoursPerDay + 1, Offset(2)),
     VStr("yesterday"), VStr(""), Missing}

\* a commit record holding the entries that are not Missing
CommitOf(author, date) ==
    VDict([k \in (IF author # Missing THEN {"author"} ELSE {})
                    \cup (IF date # Missing THEN {"date"} ELSE {}) |->
              IF k = "author" THEN author ELSE date])

CommitRecords ==
    {CommitOf(a, d) : a \in CommitAuthors, d \in CommitDates}
    \cup {CommitOf(a, IsoDate(0 - HoursPerDay, Offset(0))) : a \in OddAuthors}

CommitLists == SeqsUpTo(CommitRecords, MaxCommits)

InitCommits ==
    /\ pc = "commits"
    /\ evidence = NoFiles
    /\ system = BareSystem
    /\ inp \in [commits_data : {VDict([recent_commits |-> VList(cs)]) : cs \in CommitLists}]
    /\ out = Pending

Top1Share ==
    /\ pc = "commits"
    /\ pc' = "top1_share"
    /\ out' = Ret(_calculate_top1_share(inp.commits_data))
    /\ UNCHANGED <<inp, evidence, system>>

ActiveMaintainers ==
    /\ pc = "commits"
    /\ pc' = "active_maintainers"
    /\ out' = Ret(_calculate_active_maintainers(inp.commits_data))
    /\ UNCHANGED <<inp, evidence, system>>

NextCommits == Top1Share \/ ActiveMaintainers

SpecCommits == InitCommits /\ [][NextCommits]_vars

----------------------------------------------------------------------------
(* Claims about the derived commit statistics.                             *)

\* the commit list of the drawn document
CommitList == inp.commits_data.m.recent_commits.items

\* the commit names an author email
HasEmail(commit) ==
    /\ "author" \in DOMAIN commit.m
    /\ commit.m.author.t = "dict"
    /\ "email" \in DOMAIN commit.m.author.m

EmailOf(commit) == commit.m.author.m.email

\* the number of commits of the list by the most frequent author email
MostFrequent(cs) ==
    LET count(e) == Cardinality({i \in DOMAIN cs : EmailOf(cs[i]) = e})
    IN  CHOOSE m \in {count(EmailOf(cs[i])) : i \in DOMAIN cs} :
            \A i \in DOMAIN cs : count(EmailOf(cs[i])) <= m

\* C14: the top-1 author share is 0.0 for an empty commit list and 100.0
\* for a list of N >= 1 commits that all have the same author email; for
\* every non-empty list it is 100 x (commits of the most frequent author
\* email) / (number of commits), greater than 0 and at most 100.
C14_Top1Share ==
    (pc = "top1_share" /\ \A i \in DOMAIN CommitList : HasEmail(CommitList[i])) =>
        /\ CommitList = <<>> => out.v = VNum(Num(0))
        /\ CommitList # <<>> =>
              /\ out.v = VNum(Rat(100 * MostFrequent(CommitList), Len(CommitList)))
              /\ RLt(Num(0), out.v.q) /\ RLe(out.v.q, Num(100))
              /\ (\A i \in DOMAIN CommitList : EmailOf(CommitList[i]) = EmailOf(CommitList[1]))
                     => out.v = VNum(Num(100))

\* three commits, two of them by the most frequent author: the share is 200/3
C14_Witness ==
    /\ pc = "top1_share"
    /\ Len(CommitList) = 3
    /\ \A i \in DOMAIN CommitList : HasEmail(CommitList[i])
    /\ EmailOf(CommitList[1]) = VStr("y@co")
    /\ EmailOf(CommitList[2]) = VStr("x@co")
    /\ EmailOf(CommitList[3]) = VStr("x@co")
    /\ out.v = VNum(Rat(200, 3))

\* the reorderings of a list
Reorderings(cs) == {[i \in DOMAIN cs |-> cs[f[i]]] : f \in Permutations(DOMAIN cs)}

Range(cs) == {cs[i] : i \in DOMAIN cs}

\* one list, without repetition, of the commits of a set: every list that
\* holds the same set of commits has the same one
AsList(S) ==
    CHOOSE s \in [1..Cardinality(S) -> S] : {s[i] : i \in 1..Cardinality(S)} = S

MaintainersOf(cs) == _calculate_active_maintainers(VDict([recent_commits |-> VList(cs)]))

\* C15: the active-maintainers count is the same for every permutation of
\* the commit list; for a fixed evaluation time it depends only on the set
\* of (author email, date) pairs of the commits.
C15_MaintainersOrderFree ==
    pc = "active_maintainers" =>
        /\ \A perm \in Reorderings(CommitList) : MaintainersOf(perm) = out.v
        /\ MaintainersOf(AsList(Range(CommitList))) = out.v

\* a commit with a malformed date comes before a recent commit, and the
\* recent commit is counted
C15_Witness ==
    /\ pc = "active_maintainers"
    /\ CommitList = <<CommitOf(VDict([email |-> VStr("x@co")]), VStr("yesterday")),
                      CommitOf(VDict([email |-> VStr("y@co")]),
                               IsoDate(0 - HoursPerDay, Offset(0))),
                      CommitOf(VDict([email |-> VStr("x@co")]),
                               IsoDate(0 - HoursPerDay, Offset(0)))>>
    /\ out.v = VInt(2)

\* the commit has a date that parses as an ISO timestamp
DateParses(commit) == "date" \in DOMAIN commit.m /\ "wall" \in DOMAIN commit.m.date

\* the instant of a parsed date in hours, a date without a timezone being
\* read as UTC
InstantUtc(date) == IF date.tz = Naive THEN date.wall ELSE date.wall - date.tz.hours

\* the commit's date parses and lies within the last 90 days
Within90Days(commit) ==
    DateParses(commit) /\ InstantUtc(commit.m.date) >= Now - Days90 * HoursPerDay

\* C16: the active-maintainers count is the number of distinct author
\* emails with at least one commit whose date parses and is within the last
\* 90 days; a commit with a malformed or absent date is skipped without
\* changing the count contributed by the other commits, and a date without
\* a timezone is compared as UTC.
C16_MaintainersCount ==
    (pc = "active_maintainers" /\ \A i \in DOMAIN CommitList : HasEmail(CommitList[i])) =>
        /\ out.v = VInt(Cardinality({EmailOf(CommitList[i]) :
                          i \in {j \in DOMAIN CommitList : Within90Days(CommitList[j])}}))
        /\ out.v = MaintainersOf(SelectSeq(CommitList, DateParses))

\* one commit dated exactly 90 days ago without a timezone is counted, one
\* whose UTC instant is just older is not, and one with a malformed date is
\* skipped
C16_Witness ==
    /\ pc = "active_maintainers"
    /\ CommitList = <<CommitOf(VDict([email |-> VStr("x@co")]),
                               IsoDate(0 - Days90 * HoursPerDay, Naive)),
                      CommitOf(VDict([email |-> VStr("y@co")]),
                               IsoDate(0 - Days90 * HoursPerDay + 1, Offset(2))),
                      CommitOf(VDict([email |-> VStr("y@co")]), VStr("yesterday"))>>
    /\ out.v = VInt(1)

\* the resolver ran on the root that holds only change/commits.json, with
\* three recent commits, two by x@co and one by y@co, for the given field
CommitsOnlyRun(field) ==
    /\ pc = "resolved"
    /\ evidence = CommitsOnlyRoot
    /\ inp.source = [path |-> "change/commits.json", field |-> field]

\* C17 as stated: on that root the resolver returns 66.67 for
\* contributors.top1_share_pct and 2 for contributors.active_maintainers_90d.
C17_Returns6667 ==
    /\ CommitsOnlyRun(<<"contributors", "top1_share_pct">>) => out.v = VNum(Rat(6667, 100))
    /\ CommitsOnlyRun(<<"contributors", "active_maintainers_90d">>) => out.v = VInt(2)

\* C17: on that root the resolver returns the unrounded share 200/3, which
\* is 66.67 to two decimals, for contributors.top1_share_pct, and 2 for
\* contributors.active_maintainers_90d.
C17_ReturnsTwoThirds ==
    /\ CommitsOnlyRun(<<"contributors", "top1_share_pct">>) =>
          /\ out.v = VNum(Rat(200, 3))
          /\ \A tie_up \in BOOLEAN : Round(out.v.q, 100, tie_up) = Rat(6667, 100)
    /\ CommitsOnlyRun(<<"contributors", "active_maintainers_90d">>) => out.v = VInt(2)

\* the share of the two commits of x@co among the three was resolved
C17_Witness ==
    /\ CommitsOnlyRun(<<"contributors", "top1_share_pct">>)
    /\ out.v.t = "num"
    /\ RLt(Num(66), out.v.q) /\ RLt(out.v.q, Num(67))

----------------------------------------------------------------------------
(* Claims about the estimates.                                             *)

\* the dimension scorer ran on the maintainability dimension with no
\* quality/coverage-summary.json in the evidence root
CoverageFileMissingRun ==
    /\ pc = "dimension_scored"
    /\ ~Exists(evidence, "quality/coverage-summary.json")
    /\ Get(inp.dimension, "key", "") = "maintainability"

\* C18: when quality/coverage-summary.json does not exist, the
\* maintainability metric coverage_core_pct is estimated as the number 0
\* (not absent, no error), and the dimension containing it yields a numeric
\* score.
C18_MissingCoverageIsZero ==
    CoverageFileMissingRun =>
        /\ \A i \in DOMAIN out.trace :
              out.trace[i].key = "coverage_core_pct" =>
                 /\ out.trace[i].estimated
                 /\ out.trace[i].value = VNum(Num(0))
        /\ out.v # Raised
        /\ InRange(out.v, 0, 100)

\* the coverage metric of the maintainability dimension was estimated as 0
\* and the dimension has a score
C18_Witness ==
    /\ CoverageFileMissingRun
    /\ Len(out.trace) = 2
    /\ out.trace[1].key = "coverage_core_pct"
    /\ out.trace[1].resolved = None
    /\ out.trace[1].value = VNum(Num(0))
    /\ out.v = Num(0)

----------------------------------------------------------------------------
(* Construction of the scoring system: the choice and the load of the      *)
(* metrica.json config.  `files` maps a path to the file found there.      *)

\* possible_paths: the working directory, its parent, the parent of the
\* evidence pack, and the parent of the package
PossiblePaths ==
    <<"metrica.json", "../metrica.json", "pack-parent/metrica.json",
      "package-parent/metrica.json">>

\* the first path of the list that exists; "" stands for None
RECURSIVE FirstExisting(_, _)
FirstExisting(files, paths) ==
    IF paths = <<>> THEN ""
    ELSE IF Exists(files, Head(paths)) THEN Head(paths)
    ELSE FirstExisting(files, Tail(paths))

\* a faulty choice that keeps looking after a match and ends with the last
\* existing candidate
RECURSIVE LastExisting(_, _)
LastExisting(files, paths) ==
    IF paths = <<>> THEN ""
    ELSE IF Exists(files, paths[Len(paths)]) THEN paths[Len(paths)]
    ELSE LastExisting(files, SubSeq(paths, 1, Len(paths) - 1))

LastCandidateConfigPath(files, metrica_config_path) ==
    IF metrica_config_path # "" THEN metrica_config_path
    ELSE LastExisting(files, PossiblePaths)

\* config_path after lines 23-37
ConfigPath(files, metrica_config_path) ==
    IF metrica_config_path # "" THEN metrica_config_path
    ELSE FirstExisting(files, PossiblePaths)

\* the try block of lines 40-50: the config, or Raised; a document that is
\* no JSON object fails on `in` or on .get
ReadConfig(files, config_path) ==
    LET config_data == Load(files, config_path)
    IN  IF config_data = Raised THEN Raised
        ELSE IF config_data.t # "dict" THEN Raised
        ELSE IF "scoring_model" \in DOMAIN config_data.m THEN config_data.m
        ELSE [scoring_model |-> config_data.m]

\* self.metrica_config after lines 39-55
MetricaConfig(files, config_path) ==
    IF config_path # "" /\ Exists(files, config_path)
    THEN IF ReadConfig(files, config_path) = Raised THEN DefaultConfig
         ELSE ReadConfig(files, config_path)
    ELSE DefaultConfig

\* the object ScoringSystem(...) builds; None for stack_info, repo_facts and
\* metrics gives an empty dict
__init__(files, metrica_config_path, stack_info, repo_facts, metrics) ==
    [stack_info |-> IF stack_info = None THEN <<>> ELSE stack_info,
     repo_facts |-> IF repo_facts = None THEN <<>> ELSE repo_facts,
     metrics |-> IF metrics = None THEN <<>> ELSE metrics,
     metrica_config |-> MetricaConfig(files, ConfigPath(files, metrica_config_path))]

\* a config file with the model under the key scoring_model, and one that
\* holds the model itself; the model's name tells the files apart
WrappedConfig(path) ==
    [scoring_model |-> [name |-> path, final_score_weights |-> [security |-> Num(1)],
                        dimensions |-> <<[key |-> "security"]>>]]

BareConfig(path) == [name |-> path, dimensions |-> <<>>]

\* what may lie at a path: nothing, a file that is no JSON, a JSON array,
\* and the two shapes of config
ConfigFileKinds == {"missing", "invalid", "array", "wrapped", "bare"}

ConfigFile(kind, path) ==
    CASE kind = "missing" -> Missing
      [] kind = "invalid" -> Invalid
      [] kind = "array"   -> Json(VList(<<>>))
      [] kind = "wrapped" -> Json(VDict(WrappedConfig(path)))
      [] kind = "bare"    -> Json(VDict(BareConfig(path)))

ExplicitPath == "custom/metrica.json"

ConfigPaths == {PossiblePaths[i] : i \in DOMAIN PossiblePaths} \cup {ExplicitPath}

ConfigFileSystems ==
    {[p \in ConfigPaths |-> ConfigFile(kinds[p], p)] :
        kinds \in [ConfigPaths -> ConfigFileKinds]}

InitConstruct ==
    /\ pc = "construct"
    /\ evidence = NoFiles
    /\ inp \in [files : ConfigFileSystems, metrica_config_path : {"", ExplicitPath},
                stack_info : {None} \cup StackInfos]
    /\ system = Pending
    /\ out = Pending

Construct ==
    /\ pc = "construct"
    /\ pc' = "constructed"
    /\ system' = __init__(inp.files, inp.metrica_config_path, inp.stack_info, None, None)
    /\ out' = Ret(None)
    /\ UNCHANGED <<inp, evidence>>

SpecConstruct == InitConstruct /\ [][Construct]_vars

----------------------------------------------------------------------------
(* Claims about the construction.                                          *)

\* the candidates that exist, by their position in the fixed order
ExistingCandidates(files) == {i \in DOMAIN PossiblePaths : Exists(files, PossiblePaths[i])}

\* the file the config is read from: the explicitly given path, else the
\* first candidate that exists; "" when there is none
Chosen(files, metrica_config_path) ==
    IF metrica_config_path # "" THEN metrica_config_path
    ELSE IF ExistingCandidates(files) = {} THEN ""
    ELSE PossiblePaths[CHOOSE i \in ExistingCandidates(files) :
                          \A j \in ExistingCandidates(files) : i <= j]

\* the file holds a JSON object
Parses(files, path) ==
    path # "" /\ FileAt(files, path).t = "json" /\ FileAt(files, path).doc.t = "dict"

\* the built-in default: the fixed final_score_weights and no dimensions
IsBuiltInDefault(config) ==
    /\ config.scoring_model.dimensions = <<>>
    /\ config.scoring_model.final_score_weights =
          [velocity |-> Rat(1, 5), stability |-> Rat(3, 20), scalability |-> Rat(3, 20),
           security |-> Rat(3, 20), maintainability |-> Rat(3, 20),
           bus_factor |-> Rat(1, 10), governance |-> Rat(1, 10)]

----------------------------------------------------------------------------
(* EvidenceGenerator.generate from its scoring block to its return.  The   *)
(* evidence root is the output directory; `args` holds the arguments of    *)
(* generate, the config files, and the files generated so far.             *)

\* stack_info_data: the tech_stack of summary.json, {} when it cannot be read
StackInfoData(root) ==
    LET summary_data == Load(root, "summary.json")
    IN  IF Exists(root, "summary.json") /\ summary_data # Raised /\ summary_data.t = "dict"
        THEN Get(summary_data.m, "tech_stack", <<>>)
        ELSE <<>>

\* repo_facts_data and metrics_data: the dict generate wrote to the file
\* earlier in the run, {} when the file is missing or cannot be read
LoadedDict(root, path) ==
    LET data == Load(root, path)
    IN  IF Exists(root, path) /\ data # Raised /\ data.t = "dict" THEN data.m ELSE <<>>

\* ScoringSystem(...): the object, or Raised when Path() rejects a config
\* path that is no string
Construction(root, files, metrica_config_path) ==
    IF Truthy(metrica_config_path) /\ metrica_config_path.t # "str" THEN Raised
    ELSE __init__(files,
                  IF metrica_config_path.t = "str" THEN metrica_config_path.s ELSE "",
                  StackInfoData(root), LoadedDict(root, "repo_facts.json"),
                  LoadedDict(root, "metrics/cloc.json"))

\* a faulty scoring block that opens score.json for writing before it
\* scores, and so leaves an empty file when the scoring raises
ScoringBlockOpeningFirst(root, args, ties) ==
    LET scoring_system == Construction(root, args.files, args.metrica_config_path)
        repo_name_value == IF args.repo_name # "" THEN args.repo_name
                           ELSE Get(args.repo_facts, "name", "unknown")
        commit_sha_value == IF args.commit_sha # "" THEN args.commit_sha
                            ELSE Get(args.repo_facts, "commit_sha", "unknown")
    IN  CHOOSE block \in
            {[scoring_system |-> scoring_system,
              scores |-> scores,
              score_file |-> IF scores = Raised THEN Invalid ELSE Json(scores),
              generated |-> IF scores = Raised THEN {} ELSE {"score.json"}] :
                scores \in {IF scoring_system = Raised THEN Raised
                            ELSE calculate_scores(ScoreLocals(root, scoring_system),
                                                  repo_name_value, commit_sha_value, ties)}} :
            TRUE

\* the try block of the scoring: the scoring system and the scores, each
\* Raised when it raised, score.json as the block leaves it, and the entry
\* it adds to generated_files
ScoringBlock(root, args, ties) ==
    LET scoring_system == Construction(root, args.files, args.metrica_config_path)
        repo_name_value == IF args.repo_name # "" THEN args.repo_name
                           ELSE Get(args.repo_facts, "name", "unknown")
        commit_sha_value == IF args.commit_sha # "" THEN args.commit_sha
                            ELSE Get(args.repo_facts, "commit_sha", "unknown")
    IN  CHOOSE block \in
            {[scoring_system |-> scoring_system,
              scores |-> scores,
              score_file |-> IF scores = Raised THEN FileAt(root, "score.json")
                             ELSE Json(scores),
              generated |-> IF scores = Raised THEN {} ELSE {"score.json"}] :
                scores \in {IF scoring_system = Raised THEN Raised
                            ELSE calculate_scores(ScoreLocals(root, scoring_system),
                                                  repo_name_value, commit_sha_value, ties)}} :
            TRUE

\* SHA256SUMS: one checksum for every file of the output directory but
\* SHA256SUMS itself
Checksums(root) ==
    [t |-> "checksums",
     paths |-> {p \in DOMAIN root : p # "SHA256SUMS" /\ Exists(root, p)}]

\* a model whose dimension list holds a string where a dimension is expected
MalformedConfig ==
    [scoring_model |->
        [final_score_weights |-> [security |-> Num(1)],
         dimensions |-> <<[key |-> "security", metrics |-> <<CvesMetric(1)>>],
                          VStr("maintainability")>>]]

\* a score.json left in the output directory by an earlier run
StaleScore ==
    Json([repo |-> "repo", commit |-> "000000", generated_at |-> Now - HoursPerDay,
          scores |-> <<>>, final_score |-> Num(0),
          product_quality |-> [rating |-> Num(1), scale |-> [min |-> 1, max |-> 10]],
          grade |-> "F", notes |-> <<>>])

OutputPaths ==
    EvidencePaths \cup {"summary.json", "repo_facts.json", "metrics/cloc.json",
                        "score.json", "SHA256SUMS"}

\* the output directory when the scoring block starts: summary.json,
\* repo_facts.json and metrics/cloc.json as written earlier in the run
OutputDirs ==
    {[p \in OutputPaths |->
        CASE p = "summary.json" -> Json(VDict([tech_stack |-> st]))
          [] p = "repo_facts.json" -> Json(VDict([name |-> "repo"]))
          [] p = "metrics/cloc.json" -> Json(VDict(<<>>))
          [] p = "security/deps-sca.json" -> deps
          [] p = "change/commits.json" -> commits
          [] p = "score.json" -> score
          [] OTHER -> Missing] :
        st \in StackInfos,
        deps \in {Missing, Json(VDict([summary |-> VDict([critical |-> VInt(2)])]))},
        commits \in {Missing, CommitsOnlyRoot["change/commits.json"]},
        score \in {Missing, StaleScore}}

\* the config files: one candidate and the explicitly given path
GenerateConfigFiles ==
    {[p \in ConfigPaths |->
        CASE p = "pack-parent/metrica.json" -> candidate
          [] p = ExplicitPath -> explicit
          [] OTHER -> Missing] :
        candidate \in {Missing, Json(VDict(HalvesConfig))},
        explicit \in {Missing, Invalid, Json(VDict(UnevenConfig)),
                      Json(VDict(MalformedConfig))}}

GeneratedSoFar == {"summary.json", "repo_facts.json", "metrics/cloc.json"}

InitGenerate ==
    /\ pc = "scoring"
    /\ evidence \in OutputDirs
    /\ system = Pending
    /\ inp \in [files : GenerateConfigFiles,
                metrica_config_path : {None, VStr(ExplicitPath), VInt(7)},
                repo_name : {"", "repo"},
                commit_sha : {"abc123"},
                repo_facts : {[name |-> "facts-repo"]},
                generated_files : {GeneratedSoFar}]
    /\ out = Pending

\* the scoring block, the checksums and the return
Generate ==
    /\ pc = "scoring"
    /\ pc' = "generated"
    /\ \E ties \in Ties :
         \E block \in {ScoringBlock(evidence, inp, ties)} :
            \E scored \in {[evidence EXCEPT !["score.json"] = block.score_file]} :
                /\ system' = block.scoring_system
                /\ evidence' = [scored EXCEPT !["SHA256SUMS"] = Checksums(scored)]
                /\ out' = [t |-> "ret",
                           v |-> inp.generated_files \cup block.generated \cup {"SHA256SUMS"},
                           scores |-> block.scores]
    /\ UNCHANGED inp

SpecGenerate == InitGenerate /\ [][Generate]_vars

----------------------------------------------------------------------------
(* Claims about generate.                                                  *)

\* C20: when constructing the scoring system or calculate_scores raises,
\* generate writes no score.json in that run and does not list score.json
\* among the generated files, yet still writes SHA256SUMS and returns;
\* score.json is only ever written with a complete ScoreResult.
C20_ScoringFailureIsSkipped ==
    pc = "generated" =>
        /\ (system = Raised \/ out.scores = Raised) =>
              /\ evidence["score.json"] \in {Missing, StaleScore}
              /\ "score.json" \notin out.v
        /\ out.t = "ret"
        /\ "SHA256SUMS" \in out.v
        /\ evidence["SHA256SUMS"].t = "checksums"
        /\ evidence["score.json"] \notin {Missing, StaleScore} =>
              /\ evidence["score.json"].t = "json"
              /\ DOMAIN evidence["score.json"].doc = ResultKeys
              /\ "score.json" \in out.v

\* calculate_scores raised on a malformed model, an older score.json is
\* left as it was, and SHA256SUMS was written
C20_Witness ==
    /\ pc = "generated"
    /\ system # Raised
    /\ system.metrica_config = MalformedConfig
    /\ out.scores = Raised
    /\ evidence["score.json"] = StaleScore
    /\ "score.json" \notin out.v
    /\ evidence["SHA256SUMS"].t = "checksums"

----------------------------------------------------------------------------
(* Claims about the weighting of metrics within a dimension.               *)

\* the sum, over the first n metrics that have a value, of normalized score
\* x metric_weight / (the sum of the weights of all metrics)
RECURSIVE ValuedShare(_, _, _)
ValuedShare(metrics, trace, n) ==
    IF n = 0 THEN Num(0)
    ELSE RAdd(ValuedShare(metrics, trace, n - 1),
              IF trace[n].value = None THEN Num(0)
              ELSE RDiv(RMul(trace[n].normalized_score,
                             Num(Get(metrics[n], "metric_weight", 0))),
                        Num(SumWeights(metrics))))

\* the dimension scorer ran and at least one metric has a value
SomeMetricValued ==
    /\ pc = "dimension_scored"
    /\ \E i \in DOMAIN out.trace : out.trace[i].value # None

\* C21: when at least one metric of a dimension has a value, the dimension
\* score equals the sum, over the metrics that have a value, of
\* normalized_score x metric_weight / (sum of the metric_weights of all
\* metrics); an absent metric adds 0 and its weight stays in the denominator.
C21_ScoreIsUnscaledSum ==
    SomeMetricValued =>
        out.v = ValuedShare(Get(inp.dimension, "metrics", <<>>), out.trace, Len(out.trace))

----------------------------------------------------------------------------
(* Claims about values outside a ladder and about mixed thresholds.        *)

\* the threshold that sorts last: the last listed one among those whose
\* bound is the largest (lte, ascending sort) or the smallest (gte,
\* descending sort)
LastInSortOrder(thresholds, key) ==
    LET Extreme(i) ==
            \A j \in DOMAIN thresholds :
                IF key = "lte" THEN thresholds[j][key] <= thresholds[i][key]
                ELSE thresholds[j][key] >= thresholds[i][key]
    IN  CHOOSE i \in DOMAIN thresholds :
            Extreme(i) /\ \A j \in DOMAIN thresholds : Extreme(j) => j <= i

\* the value satisfies none of the ladder's thresholds
OutsideLadder ==
    /\ pc = "normalized"
    /\ \A i \in DOMAIN inp.normalization.thresholds :
          IF LadderKey = "lte"
          THEN RLt(Num(inp.normalization.thresholds[i].lte), inp.value.q)
          ELSE RLt(inp.value.q, Num(inp.normalization.thresholds[i].gte))

\* C22: on a pure ladder a value that satisfies no threshold takes the score
\* of the last threshold in sort order, with or without interpolation: the
\* threshold with the largest bound for lte thresholds under lower_is_better,
\* the one with the smallest bound for gte thresholds under higher_is_better.
C22_OutsideTakesLastScore ==
    OutsideLadder =>
        out.v = Num(inp.normalization.thresholds[
                        LastInSortOrder(inp.normalization.thresholds, LadderKey)].score)

C22_Witness ==
    /\ OutsideLadder
    /\ inp.normalization.direction = "lower_is_better"
    /\ inp.normalization.interpolate_between_points
    /\ inp.normalization.thresholds =
          <<Threshold("lte", 5, 40), Threshold("lte", 1, 100), Threshold("lte", 3, 0)>>
    /\ inp.value = VInt(6)
    /\ out.v = Num(40)

\* a thresholds normalization applied to a number whose thresholds are not
\* all of the kind the configured direction uses
NotPureLadder ==
    /\ pc = "normalized"
    /\ Get(inp.normalization, "type", "") = "thresholds"
    /\ Len(Get(inp.normalization, "thresholds", <<>>)) > 0
    /\ inp.value.t = "num"
    /\ LET key == IF Get(inp.normalization, "direction", "higher_is_better") = "lower_is_better"
                  THEN "lte" ELSE "gte"
       IN  \E i \in DOMAIN inp.normalization.thresholds :
               key \notin DOMAIN inp.normalization.thresholds[i]

Satisfied(threshold, v) ==
    \/ "lte" \in DOMAIN threshold /\ RLe(v, Num(threshold.lte))
    \/ "gte" \in DOMAIN threshold /\ RLe(Num(threshold.gte), v)

\* the scores of the tightest satisfied bounds: the smallest satisfied lte
\* bound and the largest satisfied gte bound
TightestScores(thresholds, v) ==
    {Num(thresholds[i].score) : i \in
        {i \in DOMAIN thresholds :
            /\ Satisfied(thresholds[i], v)
            /\ \A j \in DOMAIN thresholds :
                  Satisfied(thresholds[j], v) =>
                      /\ ("lte" \in DOMAIN thresholds[i] /\ "lte" \in DOMAIN thresholds[j]) =>
                             thresholds[i].lte <= thresholds[j].lte
                      /\ ("gte" \in DOMAIN thresholds[i] /\ "gte" \in DOMAIN thresholds[j]) =>
                             thresholds[i].gte >= thresholds[j].gte}}

\* the same thresholds listed in another order
Relisted(normalization) ==
    {[normalization EXCEPT !.thresholds = [i \in DOMAIN normalization.thresholds |->
                                               normalization.thresholds[p[i]]]] :
        p \in Permutations(DOMAIN normalization.thresholds)}

\* C23: when the thresholds do not form a pure ladder for the configured
\* direction, the result is the score of the tightest satisfied bound (the
\* smallest lte bound that is >= value or the largest gte bound that is <=
\* value), whatever the order in which the thresholds are listed, and 0 when
\* no threshold is satisfied.
C23_TightestSatisfiedBound ==
    NotPureLadder =>
        LET tightest == TightestScores(inp.normalization.thresholds, inp.value.q)
        IN  /\ IF tightest = {} THEN out.v = Num(0) ELSE out.v \in tightest
            /\ \A relisted \in Relisted(inp.normalization) :
                   _normalize_value(inp.value, relisted) = out.v

----------------------------------------------------------------------------
(* Claims about the turns of the metric loop.                              *)

\* C24: each metric of a dimension is resolved, then estimated, then
\* normalized, and the estimator runs if and only if the resolver returned
\* absent: a resolved 0 or false is normalized as is and never replaced by
\* an estimate.
C24_EstimateOnlyWhenAbsent ==
    pc = "dimension_scored" =>
        \A i \in DOMAIN out.trace :
            LET metric == inp.dimension.metrics[i]
                turn == out.trace[i]
                estimate == _estimate_metric_value(evidence, system, Get(metric, "key", ""),
                                                   Get(inp.dimension, "key", ""))
            IN  /\ turn.resolved = _get_metric_value(evidence, Get(metric, "source", <<>>))
                /\ turn.estimated <=> (turn.resolved = None)
                /\ turn.value = IF turn.resolved = None THEN estimate ELSE turn.resolved
                /\ turn.value # Raised =>
                       turn.normalized_score =
                           _normalize_value(turn.value, Get(metric, "normalization", <<>>))

\* a resolved 0 is kept although the estimator would return 4
C24_Witness ==
    /\ pc = "dimension_scored"
    /\ Get(inp.dimension, "metrics", <<>>) = <<SourcedDeploysMetric(1)>>
    /\ out.trace[1].resolved = VInt(0)
    /\ ~out.trace[1].estimated
    /\ out.trace[1].value = VInt(0)
    /\ out.trace[1].normalized_score = Num(0)
    /\ _estimate_metric_value(evidence, system, "deploys_per_month", "velocity") = VInt(4)

----------------------------------------------------------------------------
(* Running the estimator on a drawn evidence root, stack and metric.       *)

\* the (dimension, metric) pairs _estimate_metric_value has a heuristic for
EstimatedPairs ==
    {<<"velocity", m>> : m \in {"deploys_per_month", "lead_time_pr_to_prod_hours",
                                "features_shipped_per_month"}}
    \cup {<<"stability", m>> : m \in {"change_failure_rate_pct", "mttr_minutes",
                                      "prod_incidents_last_30d"}}
    \cup {<<"scalability", m>> : m \in {"stateless_services_pct", "async_processing_present",
                                        "autoscaling_configured"}}
    \cup {<<"security", m>> : m \in {"critical_cves_open", "secrets_detected"}}
    \cup {<<"maintainability", m>> : m \in {"coverage_core_pct", "sonar_maintainability_rating",
                                            "duplication_pct"}}
    \cup {<<"bus_factor", m>> : m \in {"top1_author_share_pct", "active_maintainers_count"}}
    \cup {<<"governance", m>> : m \in {"ci_cd_present", "onboarding_docs_present",
                                       "runbooks_present", "adrs_present",
                                       "evidence_per_build_published"}}

InitEstimate ==
    /\ pc = "estimate"
    /\ evidence \in EvidenceRoots
    /\ system \in {sy \in Systems : sy.metrica_config = DefaultConfig}
    /\ inp \in {[dimension_key |-> p[1], metric_key |-> p[2]] : p \in EstimatedPairs}
    /\ out = Pending

Estimate ==
    /\ pc = "estimate"
    /\ pc' = "estimated"
    /\ out' = Ret(_estimate_metric_value(evidence, system, inp.metric_key, inp.dimension_key))
    /\ UNCHANGED <<inp, evidence, system>>

SpecEstimate == InitEstimate /\ [][Estimate]_vars

BooleanMetrics ==
    {"async_processing_present", "autoscaling_configured", "ci_cd_present",
     "onboarding_docs_present", "runbooks_present", "adrs_present",
     "evidence_per_build_published"}

\* the type the metric's normalization needs
NeededType(metric_key) ==
    IF metric_key \in BooleanMetrics THEN "bool"
    ELSE IF metric_key = "sonar_maintainability_rating" THEN "str"
    ELSE "num"

NoEvidenceFiles == \A p \in EvidencePaths : evidence[p] = Missing

\* C25: for every (dimension, metric) pair the estimator has a heuristic for,
\* the estimate made when none of the evidence files exist is not absent and
\* has the type the metric's normalization needs: a boolean for the boolean
\* metrics, a label for sonar_maintainability_rating, a number otherwise.
C25_EstimateIsTyped ==
    (pc = "estimated" /\ NoEvidenceFiles) =>
        /\ out.v # None
        /\ out.v.t = NeededType(inp.metric_key)

----------------------------------------------------------------------------
(* Running the deploys_per_month estimate on commit lists described by the *)
(* number of commits of each kind.                                         *)

MaxRecent == 21
MaxOld == 2

\* commits whose date is malformed, empty or absent
UndatedCommits ==
    {VDict([author |-> VDict([email |-> VStr("x@co")]), date |-> VStr("yesterday")]),
     VDict([author |-> VDict([email |-> VStr("x@co")]), date |-> VStr("")]),
     VDict([author |-> VDict([email |-> VStr("x@co")])])}

\* `recent` commits dated yesterday, then `old` commits dated 40 days ago,
\* then the undated ones
CommitsOf(recent, old, undated) ==
    [i \in 1..(recent + old + Len(undated)) |->
        IF i <= recent THEN Commit("x@co", 1)
        ELSE IF i <= recent + old THEN Commit("y@co", 40)
        ELSE undated[i - recent - old]]

\* an evidence pack that holds change/commits.json only
DeploysRoot(commits) ==
    [p \in EvidencePaths |->
        IF p = "change/commits.json"
        THEN Json(VDict([recent_commits |-> VList(commits)]))
        ELSE Missing]

InitDeploys ==
    /\ pc = "deploys"
    /\ inp \in [recent : 0..MaxRecent, old : 0..MaxOld,
                undated : {<<>>} \cup {<<c>> : c \in UndatedCommits}]
    /\ evidence = DeploysRoot(CommitsOf(inp.recent, inp.old, inp.undated))
    /\ system \in {sy \in Systems : sy.metrica_config = DefaultConfig}
    /\ out = Pending

EstimateDeploysPerMonth ==
    /\ pc = "deploys"
    /\ pc' = "deploys_estimated"
    /\ out' = Ret(_estimate_metric_value(evidence, system, "deploys_per_month", "velocity"))
    /\ UNCHANGED <<inp, evidence, system>>

SpecDeploys == InitDeploys /\ [][EstimateDeploysPerMonth]_vars

\* the tier the number n of commits of the last 30 days selects
DeploysTier(n, modern) ==
    IF n >= 20 /\ modern THEN 10
    ELSE IF n >= 10 THEN 4
    ELSE IF n >= 5 THEN 1
    ELSE IF modern THEN 4 ELSE 0

\* C26: the deploys_per_month estimate is determined by n, the number of
\* commits dated within the last 30 days, and by whether the stack lists a
\* modern framework: 10 for n >= 20 with a modern stack, otherwise 4 for
\* n >= 10, otherwise 1 for n >= 5, otherwise 4 with a modern stack and 0
\* without.
C26_DeploysTiers ==
    pc = "deploys_estimated" =>
        out.v = VInt(DeploysTier(inp.recent, HasModernStack(system)))

\* the estimate for the same pack without the undated commit
WithoutUndated ==
    _estimate_metric_value(DeploysRoot(CommitsOf(inp.recent, inp.old, <<>>)), system,
                           "deploys_per_month", "velocity")

\* C27: a commit with a malformed or absent date is skipped on its own:
\* adding it to the commit list changes neither the tier selected by the
\* commits whose dates parse nor aborts the count.
C27_UndatedCommitIsSkipped ==
    (pc = "deploys_estimated" /\ inp.undated # <<>>) => out.v = WithoutUndated

\* C29: for a fixed stack the deploys_per_month estimate is monotone
\* non-decreasing in the number of commits dated within the last 30 days.
C29_DeploysMonotone ==
    pc = "deploys_estimated" =>
        \A fewer \in 0..inp.recent :
            RLe(_estimate_metric_value(
                    DeploysRoot(CommitsOf(fewer, inp.old, inp.undated)), system,
                    "deploys_per_month", "velocity").q,
                out.v.q)

----------------------------------------------------------------------------
(* Claims about the grade and the reported final score.                    *)

\* the grade band of a reported score
BandOf(reported) ==
    IF RLe(Num(90), reported) THEN "A"
    ELSE IF RLe(Num(80), reported) THEN "B"
    ELSE IF RLe(Num(70), reported) THEN "C"
    ELSE IF RLe(Num(60), reported) THEN "D"
    ELSE "E"

\* the overall-assessment note of a reported score
OverallOf(reported) ==
    IF RLe(Num(80), reported) THEN Sentence(StrongNote)
    ELSE IF RLe(Num(60), reported) THEN Sentence(GoodNote)
    ELSE Sentence(WeakNote)

\* C28: in every ScoreResult the grade is the band of the final_score that is
\* reported next to it (A from 90, B from 80, C from 70, D from 60, E below),
\* and the overall-assessment note matches the band of the reported
\* final_score, although the reported final_score is rounded to two decimals.
C28_GradeAgreesWithReported ==
    (pc = "scored" /\ out.v # Raised) =>
        /\ out.v.grade = BandOf(out.v.final_score)
        /\ out.v.notes[Len(out.v.notes)] = OverallOf(out.v.final_score)

----------------------------------------------------------------------------
(* Claims about the equivalence of the primary and the alternative path.   *)

\* the resolver ran for a source whose primary file is missing while an
\* alternative file exists
ResolvedThroughAlternative ==
    /\ pc = "resolved"
    /\ Sourced(inp.source)
    /\ ~Exists(evidence, inp.source.path)
    /\ Len(OtherPaths(inp.source.path)) > 0
    /\ Exists(evidence, OtherPaths(inp.source.path)[1])

\* the evidence pack with the alternative file's content at the primary path
AtPrimaryPath ==
    [p \in DOMAIN evidence |->
        IF p = inp.source.path THEN evidence[OtherPaths(inp.source.path)[1]]
        ELSE evidence[p]]

\* C30: when the primary evidence file is missing and an alternative file
\* exists, the resolver applies the same field remapping and computed
\* functions to it and returns the value it would return if that content
\* were at the primary path.
C30_AlternativeLikePrimary ==
    ResolvedThroughAlternative =>
        out.v = _get_metric_value(AtPrimaryPath, inp.source)

====
